---- MODULE Spec2Model ----
(***************************************************************************)
(* State-machine model of pkg/whispercpp/service.go (WhisperService): the  *)
(* streaming transcription pipeline                                         *)
(*   handleWebSocket -> ProcessAudio -> audioQueue -> processAudio          *)
(*   -> transcribeAudio -> results -> broadcastResults -> BroadcastResult   *)
(* together with Initialize and Close.                                      *)
(*                                                                          *)
(* Goroutines are processes; a step is one atomic segment of a goroutine    *)
(* between two points where another goroutine can observe or block it      *)
(* (lock acquisition, channel operation, engine call, socket I/O).          *)
(* A panic of a goroutine that nothing recovers ends the process: every     *)
(* action is disabled once panicked # "none".                               *)
(***************************************************************************)
EXTENDS Integers, Sequences, FiniteSets, TLC

(*************************** program constants ****************************)
\* config.go:24  DefaultConfig().SampleRate
SampleRate == 16000
\* service.go:167  bufferSize := s.config.SampleRate * 3
bufferSize == SampleRate * 3
\* service.go:168  minBufferSize := s.config.SampleRate / 2
minBufferSize == SampleRate \div 2

(****************************** model bounds ******************************)
\* capacity of audioQueue (1000 in service.go:75), scaled down
AudioQueueCap == 1
\* capacity of results (100 in service.go:76), scaled down
ResultsCap == 1
\* Initialize calls that start loops, and Close calls
MaxInits == 1
MaxCloses == 1
\* pipeline scenario: ProcessAudio calls made
PipeChunks == 2
\* broadcast scenario: connections accepted, BroadcastResult calls made
CastConns == 2
CastResults == 2
\* session scenario: connections accepted, frames read on each
SessionConns == 1
SessionFrames == 2
\* session scenario: results written to one connection
SessionResults == 1
\* one-shot scenario: InitWhisperService calls, TranscribeHandler requests
HttpInits == 2
HttpRequests == 2
\* lifecycle scenario: Initialize calls, Close calls, full-window chunks
LifeInits == 2
LifeCloses == 2
LifeChunks == 1
\* load scenario: full-window chunks
BusyChunks == 3
\* shutdown scenario: frames of the peer, results sent to it
StopFrames == 3
StopResults == 1

\* lengths (in samples) of the chunks submitted: half of minBufferSize (two
\* of them reach it exactly), and exactly bufferSize
ChunkLens == {4000, 48000}

(******************************** texts ***********************************)
\* A text is a tuple of one-character strings.
Upper == <<"A","B","C","D","E","F","G","H","I","J","K","L","M",
           "N","O","P","Q","R","S","T","U","V","W","X","Y","Z">>
Lower == <<"a","b","c","d","e","f","g","h","i","j","k","l","m",
           "n","o","p","q","r","s","t","u","v","w","x","y","z">>

\* The capital and titlecase letters beyond ASCII, each named by its code
\* point, in code point order
UpperUnicode == <<
  "U+00C0", "U+00C1", "U+00C2", "U+00C3", "U+00C4", "U+00C5", "U+00C6", "U+00C7",
  "U+00C8", "U+00C9", "U+00CA", "U+00CB", "U+00CC", "U+00CD", "U+00CE", "U+00CF",
  "U+00D0", "U+00D1", "U+00D2", "U+00D3", "U+00D4", "U+00D5", "U+00D6", "U+00D8",
  "U+00D9", "U+00DA", "U+00DB", "U+00DC", "U+00DD", "U+00DE", "U+0100", "U+0102",
  "U+0104", "U+0106", "U+0108", "U+010A", "U+010C", "U+010E", "U+0110", "U+0112",
  "U+0114", "U+0116", "U+0118", "U+011A", "U+011C", "U+011E", "U+0120", "U+0122",
  "U+0124", "U+0126", "U+0128", "U+012A", "U+012C", "U+012E", "U+0130", "U+0132",
  "U+0134", "U+0136", "U+0139", "U+013B", "U+013D", "U+013F", "U+0141", "U+0143",
  "U+0145", "U+0147", "U+014A", "U+014C", "U+014E", "U+0150", "U+0152", "U+0154",
  "U+0156", "U+0158", "U+015A", "U+015C", "U+015E", "U+0160", "U+0162", "U+0164",
  "U+0166", "U+0168", "U+016A", "U+016C", "U+016E", "U+0170", "U+0172", "U+0174",
  "U+0176", "U+0178", "U+0179", "U+017B", "U+017D", "U+0181", "U+0182", "U+0184",
  "U+0186", "U+0187", "U+0189", "U+018A", "U+018B", "U+018E", "U+018F", "U+0190",
  "U+0191", "U+0193", "U+0194", "U+0196", "U+0197", "U+0198", "U+019C", "U+019D",
  "U+019F", "U+01A0", "U+01A2", "U+01A4", "U+01A6", "U+01A7", "U+01A9", "U+01AC",
  "U+01AE", "U+01AF", "U+01B1", "U+01B2", "U+01B3", "U+01B5", "U+01B7", "U+01B8",
  "U+01BC", "U+01C4", "U+01C5", "U+01C7", "U+01C8", "U+01CA", "U+01CB", "U+01CD",
  "U+01CF", "U+01D1", "U+01D3", "U+01D5", "U+01D7", "U+01D9", "U+01DB", "U+01DE",
  "U+01E0", "U+01E2", "U+01E4", "U+01E6", "U+01E8", "U+01EA", "U+01EC", "U+01EE",
  "U+01F1", "U+01F2", "U+01F4", "U+01F6", "U+01F7", "U+01F8", "U+01FA", "U+01FC",
  "U+01FE", "U+0200", "U+0202", "U+0204", "U+0206", "U+0208", "U+020A", "U+020C",
  "U+020E", "U+0210", "U+0212", "U+0214", "U+0216", "U+0218", "U+021A", "U+021C",
  "U+021E", "U+0220", "U+0222", "U+0224", "U+0226", "U+0228", "U+022A", "U+022C",
  "U+022E", "U+0230", "U+0232", "U+023A", "U+023B", "U+023D", "U+023E", "U+0241",
  "U+0243", "U+0244", "U+0245", "U+0246", "U+0248", "U+024A", "U+024C", "U+024E",
  "U+0370", "U+0372", "U+0376", "U+037F", "U+0386", "U+0388", "U+0389", "U+038A",
  "U+038C", "U+038E", "U+038F", "U+0391", "U+0392", "U+0393", "U+0394", "U+0395",
  "U+0396", "U+0397", "U+0398", "U+0399", "U+039A", "U+039B", "U+039C", "U+039D",
  "U+039E", "U+039F", "U+03A0", "U+03A1", "U+03A3", "U+03A4", "U+03A5", "U+03A6",
  "U+03A7", "U+03A8", "U+03A9", "U+03AA", "U+03AB", "U+03CF", "U+03D8", "U+03DA",
  "U+03DC", "U+03DE", "U+03E0", "U+03E2", "U+03E4", "U+03E6", "U+03E8", "U+03EA",
  "U+03EC", "U+03EE", "U+03F4", "U+03F7", "U+03F9", "U+03FA", "U+03FD", "U+03FE",
  "U+03FF", "U+0400", "U+0401", "U+0402", "U+0403", "U+0404", "U+0405", "U+0406",
  "U+0407", "U+0408", "U+0409", "U+040A", "U+040B", "U+040C", "U+040D", "U+040E",
  "U+040F", "U+0410", "U+0411", "U+0412", "U+0413", "U+0414", "U+0415", "U+0416",
  "U+0417", "U+0418", "U+0419", "U+041A", "U+041B", "U+041C", "U+041D", "U+041E",
  "U+041F", "U+0420", "U+0421", "U+0422", "U+0423", "U+0424", "U+0425", "U+0426",
  "U+0427", "U+0428", "U+0429", "U+042A", "U+042B", "U+042C", "U+042D", "U+042E",
  "U+042F", "U+0460", "U+0462", "U+0464", "U+0466", "U+0468", "U+046A", "U+046C",
  "U+046E", "U+0470", "U+0472", "U+0474", "U+0476", "U+0478", "U+047A", "U+047C",
  "U+047E", "U+0480", "U+048A", "U+048C", "U+048E", "U+0490", "U+0492", "U+0494",
  "U+0496", "U+0498", "U+049A", "U+049C", "U+049E", "U+04A0", "U+04A2", "U+04A4",
  "U+04A6", "U+04A8", "U+04AA", "U+04AC", "U+04AE", "U+04B0", "U+04B2", "U+04B4",
  "U+04B6", "U+04B8", "U+04BA", "U+04BC", "U+04BE", "U+04C0", "U+04C1", "U+04C3",
  "U+04C5", "U+04C7", "U+04C9", "U+04CB", "U+04CD", "U+04D0", "U+04D2", "U+04D4",
  "U+04D6", "U+04D8", "U+04DA", "U+04DC", "U+04DE", "U+04E0", "U+04E2", "U+04E4",
  "U+04E6", "U+04E8", "U+04EA", "U+04EC", "U+04EE", "U+04F0", "U+04F2", "U+04F4",
  "U+04F6", "U+04F8", "U+04FA", "U+04FC", "U+04FE", "U+0500", "U+0502", "U+0504",
  "U+0506", "U+0508", "U+050A", "U+050C", "U+050E", "U+0510", "U+0512", "U+0514",
  "U+0516", "U+0518", "U+051A", "U+051C", "U+051E", "U+0520", "U+0522", "U+0524",
  "U+0526", "U+0528", "U+052A", "U+052C", "U+052E", "U+0531", "U+0532", "U+0533",
  "U+0534", "U+0535", "U+0536", "U+0537", "U+0538", "U+0539", "U+053A", "U+053B",
  "U+053C", "U+053D", "U+053E", "U+053F", "U+0540", "U+0541", "U+0542", "U+0543",
  "U+0544", "U+0545", "U+0546", "U+0547", "U+0548", "U+0549", "U+054A", "U+054B",
  "U+054C", "U+054D", "U+054E", "U+054F", "U+0550", "U+0551", "U+0552", "U+0553",
  "U+0554", "U+0555", "U+0556", "U+10A0", "U+10A1", "U+10A2", "U+10A3", "U+10A4",
  "U+10A5", "U+10A6", "U+10A7", "U+10A8", "U+10A9", "U+10AA", "U+10AB", "U+10AC",
  "U+10AD", "U+10AE", "U+10AF", "U+10B0", "U+10B1", "U+10B2", "U+10B3", "U+10B4",
  "U+10B5", "U+10B6", "U+10B7", "U+10B8", "U+10B9", "U+10BA", "U+10BB", "U+10BC",
  "U+10BD", "U+10BE", "U+10BF", "U+10C0", "U+10C1", "U+10C2", "U+10C3", "U+10C4",
  "U+10C5", "U+10C7", "U+10CD", "U+13A0", "U+13A1", "U+13A2", "U+13A3", "U+13A4",
  "U+13A5", "U+13A6", "U+13A7", "U+13A8", "U+13A9", "U+13AA", "U+13AB", "U+13AC",
  "U+13AD", "U+13AE", "U+13AF", "U+13B0", "U+13B1", "U+13B2", "U+13B3", "U+13B4",
  "U+13B5", "U+13B6", "U+13B7", "U+13B8", "U+13B9", "U+13BA", "U+13BB", "U+13BC",
  "U+13BD", "U+13BE", "U+13BF", "U+13C0", "U+13C1", "U+13C2", "U+13C3", "U+13C4",
  "U+13C5", "U+13C6", "U+13C7", "U+13C8", "U+13C9", "U+13CA", "U+13CB", "U+13CC",
  "U+13CD", "U+13CE", "U+13CF", "U+13D0", "U+13D1", "U+13D2", "U+13D3", "U+13D4",
  "U+13D5", "U+13D6", "U+13D7", "U+13D8", "U+13D9", "U+13DA", "U+13DB", "U+13DC",
  "U+13DD", "U+13DE", "U+13DF", "U+13E0", "U+13E1", "U+13E2", "U+13E3", "U+13E4",
  "U+13E5", "U+13E6", "U+13E7", "U+13E8", "U+13E9", "U+13EA", "U+13EB", "U+13EC",
  "U+13ED", "U+13EE", "U+13EF", "U+13F0", "U+13F1", "U+13F2", "U+13F3", "U+13F4",
  "U+13F5", "U+1C90", "U+1C91", "U+1C92", "U+1C93", "U+1C94", "U+1C95", "U+1C96",
  "U+1C97", "U+1C98", "U+1C99", "U+1C9A", "U+1C9B", "U+1C9C", "U+1C9D", "U+1C9E",
  "U+1C9F", "U+1CA0", "U+1CA1", "U+1CA2", "U+1CA3", "U+1CA4", "U+1CA5", "U+1CA6",
  "U+1CA7", "U+1CA8", "U+1CA9", "U+1CAA", "U+1CAB", "U+1CAC", "U+1CAD", "U+1CAE",
  "U+1CAF", "U+1CB0", "U+1CB1", "U+1CB2", "U+1CB3", "U+1CB4", "U+1CB5", "U+1CB6",
  "U+1CB7", "U+1CB8", "U+1CB9", "U+1CBA", "U+1CBD", "U+1CBE", "U+1CBF", "U+1E00",
  "U+1E02", "U+1E04", "U+1E06", "U+1E08", "U+1E0A", "U+1E0C", "U+1E0E", "U+1E10",
  "U+1E12", "U+1E14", "U+1E16", "U+1E18", "U+1E1A", "U+1E1C", "U+1E1E", "U+1E20",
  "U+1E22", "U+1E24", "U+1E26", "U+1E28", "U+1E2A", "U+1E2C", "U+1E2E", "U+1E30",
  "U+1E32", "U+1E34", "U+1E36", "U+1E38", "U+1E3A", "U+1E3C", "U+1E3E", "U+1E40",
  "U+1E42", "U+1E44", "U+1E46", "U+1E48", "U+1E4A", "U+1E4C", "U+1E4E", "U+1E50",
  "U+1E52", "U+1E54", "U+1E56", "U+1E58", "U+1E5A", "U+1E5C", "U+1E5E", "U+1E60",
  "U+1E62", "U+1E64", "U+1E66", "U+1E68", "U+1E6A", "U+1E6C", "U+1E6E", "U+1E70",
  "U+1E72", "U+1E74", "U+1E76", "U+1E78", "U+1E7A", "U+1E7C", "U+1E7E", "U+1E80",
  "U+1E82", "U+1E84", "U+1E86", "U+1E88", "U+1E8A", "U+1E8C", "U+1E8E", "U+1E90",
  "U+1E92", "U+1E94", "U+1E9E", "U+1EA0", "U+1EA2", "U+1EA4", "U+1EA6", "U+1EA8",
  "U+1EAA", "U+1EAC", "U+1EAE", "U+1EB0", "U+1EB2", "U+1EB4", "U+1EB6", "U+1EB8",
  "U+1EBA", "U+1EBC", "U+1EBE", "U+1EC0", "U+1EC2", "U+1EC4", "U+1EC6", "U+1EC8",
  "U+1ECA", "U+1ECC", "U+1ECE", "U+1ED0", "U+1ED2", "U+1ED4", "U+1ED6", "U+1ED8",
  "U+1EDA", "U+1EDC", "U+1EDE", "U+1EE0", "U+1EE2", "U+1EE4", "U+1EE6", "U+1EE8",
  "U+1EEA", "U+1EEC", "U+1EEE", "U+1EF0", "U+1EF2", "U+1EF4", "U+1EF6", "U+1EF8",
  "U+1EFA", "U+1EFC", "U+1EFE", "U+1F08", "U+1F09", "U+1F0A", "U+1F0B", "U+1F0C",
  "U+1F0D", "U+1F0E", "U+1F0F", "U+1F18", "U+1F19", "U+1F1A", "U+1F1B", "U+1F1C",
  "U+1F1D", "U+1F28", "U+1F29", "U+1F2A", "U+1F2B", "U+1F2C", "U+1F2D", "U+1F2E",
  "U+1F2F", "U+1F38", "U+1F39", "U+1F3A", "U+1F3B", "U+1F3C", "U+1F3D", "U+1F3E",
  "U+1F3F", "U+1F48", "U+1F49", "U+1F4A", "U+1F4B", "U+1F4C", "U+1F4D", "U+1F59",
  "U+1F5B", "U+1F5D", "U+1F5F", "U+1F68", "U+1F69", "U+1F6A", "U+1F6B", "U+1F6C",
  "U+1F6D", "U+1F6E", "U+1F6F", "U+1F88", "U+1F89", "U+1F8A", "U+1F8B", "U+1F8C",
  "U+1F8D", "U+1F8E", "U+1F8F", "U+1F98", "U+1F99", "U+1F9A", "U+1F9B", "U+1F9C",
  "U+1F9D", "U+1F9E", "U+1F9F", "U+1FA8", "U+1FA9", "U+1FAA", "U+1FAB", "U+1FAC",
  "U+1FAD", "U+1FAE", "U+1FAF", "U+1FB8", "U+1FB9", "U+1FBA", "U+1FBB", "U+1FBC",
  "U+1FC8", "U+1FC9", "U+1FCA", "U+1FCB", "U+1FCC", "U+1FD8", "U+1FD9", "U+1FDA",
  "U+1FDB", "U+1FE8", "U+1FE9", "U+1FEA", "U+1FEB", "U+1FEC", "U+1FF8", "U+1FF9",
  "U+1FFA", "U+1FFB", "U+1FFC", "U+2126", "U+212A", "U+212B", "U+2132", "U+2160",
  "U+2161", "U+2162", "U+2163", "U+2164", "U+2165", "U+2166", "U+2167", "U+2168",
  "U+2169", "U+216A", "U+216B", "U+216C", "U+216D", "U+216E", "U+216F", "U+2183",
  "U+24B6", "U+24B7", "U+24B8", "U+24B9", "U+24BA", "U+24BB", "U+24BC", "U+24BD",
  "U+24BE", "U+24BF", "U+24C0", "U+24C1", "U+24C2", "U+24C3", "U+24C4", "U+24C5",
  "U+24C6", "U+24C7", "U+24C8", "U+24C9", "U+24CA", "U+24CB", "U+24CC", "U+24CD",
  "U+24CE", "U+24CF", "U+2C00", "U+2C01", "U+2C02", "U+2C03", "U+2C04", "U+2C05",
  "U+2C06", "U+2C07", "U+2C08", "U+2C09", "U+2C0A", "U+2C0B", "U+2C0C", "U+2C0D",
  "U+2C0E", "U+2C0F", "U+2C10", "U+2C11", "U+2C12", "U+2C13", "U+2C14", "U+2C15",
  "U+2C16", "U+2C17", "U+2C18", "U+2C19", "U+2C1A", "U+2C1B", "U+2C1C", "U+2C1D",
  "U+2C1E", "U+2C1F", "U+2C20", "U+2C21", "U+2C22", "U+2C23", "U+2C24", "U+2C25",
  "U+2C26", "U+2C27", "U+2C28", "U+2C29", "U+2C2A", "U+2C2B", "U+2C2C", "U+2C2D",
  "U+2C2E", "U+2C2F", "U+2C60", "U+2C62", "U+2C63", "U+2C64", "U+2C67", "U+2C69",
  "U+2C6B", "U+2C6D", "U+2C6E", "U+2C6F", "U+2C70", "U+2C72", "U+2C75", "U+2C7E",
  "U+2C7F", "U+2C80", "U+2C82", "U+2C84", "U+2C86", "U+2C88", "U+2C8A", "U+2C8C",
  "U+2C8E", "U+2C90", "U+2C92", "U+2C94", "U+2C96", "U+2C98", "U+2C9A", "U+2C9C",
  "U+2C9E", "U+2CA0", "U+2CA2", "U+2CA4", "U+2CA6", "U+2CA8", "U+2CAA", "U+2CAC",
  "U+2CAE", "U+2CB0", "U+2CB2", "U+2CB4", "U+2CB6", "U+2CB8", "U+2CBA", "U+2CBC",
  "U+2CBE", "U+2CC0", "U+2CC2", "U+2CC4", "U+2CC6", "U+2CC8", "U+2CCA", "U+2CCC",
  "U+2CCE", "U+2CD0", "U+2CD2", "U+2CD4", "U+2CD6", "U+2CD8", "U+2CDA", "U+2CDC",
  "U+2CDE", "U+2CE0", "U+2CE2", "U+2CEB", "U+2CED", "U+2CF2", "U+A640", "U+A642",
  "U+A644", "U+A646", "U+A648", "U+A64A", "U+A64C", "U+A64E", "U+A650", "U+A652",
  "U+A654", "U+A656", "U+A658", "U+A65A", "U+A65C", "U+A65E", "U+A660", "U+A662",
  "U+A664", "U+A666", "U+A668", "U+A66A", "U+A66C", "U+A680", "U+A682", "U+A684",
  "U+A686", "U+A688", "U+A68A", "U+A68C", "U+A68E", "U+A690", "U+A692", "U+A694",
  "U+A696", "U+A698", "U+A69A", "U+A722", "U+A724", "U+A726", "U+A728", "U+A72A",
  "U+A72C", "U+A72E", "U+A732", "U+A734", "U+A736", "U+A738", "U+A73A", "U+A73C",
  "U+A73E", "U+A740", "U+A742", "U+A744", "U+A746", "U+A748", "U+A74A", "U+A74C",
  "U+A74E", "U+A750", "U+A752", "U+A754", "U+A756", "U+A758", "U+A75A", "U+A75C",
  "U+A75E", "U+A760", "U+A762", "U+A764", "U+A766", "U+A768", "U+A76A", "U+A76C",
  "U+A76E", "U+A779", "U+A77B", "U+A77D", "U+A77E", "U+A780", "U+A782", "U+A784",
  "U+A786", "U+A78B", "U+A78D", "U+A790", "U+A792", "U+A796", "U+A798", "U+A79A",
  "U+A79C", "U+A79E", "U+A7A0", "U+A7A2", "U+A7A4", "U+A7A6", "U+A7A8", "U+A7AA",
  "U+A7AB", "U+A7AC", "U+A7AD", "U+A7AE", "U+A7B0", "U+A7B1", "U+A7B2", "U+A7B3",
  "U+A7B4", "U+A7B6", "U+A7B8", "U+A7BA", "U+A7BC", "U+A7BE", "U+A7C0", "U+A7C2",
  "U+A7C4", "U+A7C5", "U+A7C6", "U+A7C7", "U+A7C9", "U+A7D0", "U+A7D6", "U+A7D8",
  "U+A7F5", "U+FF21", "U+FF22", "U+FF23", "U+FF24", "U+FF25", "U+FF26", "U+FF27",
  "U+FF28", "U+FF29", "U+FF2A", "U+FF2B", "U+FF2C", "U+FF2D", "U+FF2E", "U+FF2F",
  "U+FF30", "U+FF31", "U+FF32", "U+FF33", "U+FF34", "U+FF35", "U+FF36", "U+FF37",
  "U+FF38", "U+FF39", "U+FF3A", "U+10400", "U+10401", "U+10402", "U+10403", "U+10404",
  "U+10405", "U+10406", "U+10407", "U+10408", "U+10409", "U+1040A", "U+1040B", "U+1040C",
  "U+1040D", "U+1040E", "U+1040F", "U+10410", "U+10411", "U+10412", "U+10413", "U+10414",
  "U+10415", "U+10416", "U+10417", "U+10418", "U+10419", "U+1041A", "U+1041B", "U+1041C",
  "U+1041D", "U+1041E", "U+1041F", "U+10420", "U+10421", "U+10422", "U+10423", "U+10424",
  "U+10425", "U+10426", "U+10427", "U+104B0", "U+104B1", "U+104B2", "U+104B3", "U+104B4",
  "U+104B5", "U+104B6", "U+104B7", "U+104B8", "U+104B9", "U+104BA", "U+104BB", "U+104BC",
  "U+104BD", "U+104BE", "U+104BF", "U+104C0", "U+104C1", "U+104C2", "U+104C3", "U+104C4",
  "U+104C5", "U+104C6", "U+104C7", "U+104C8", "U+104C9", "U+104CA", "U+104CB", "U+104CC",
  "U+104CD", "U+104CE", "U+104CF", "U+104D0", "U+104D1", "U+104D2", "U+104D3", "U+10570",
  "U+10571", "U+10572", "U+10573", "U+10574", "U+10575", "U+10576", "U+10577", "U+10578",
  "U+10579", "U+1057A", "U+1057C", "U+1057D", "U+1057E", "U+1057F", "U+10580", "U+10581",
  "U+10582", "U+10583", "U+10584", "U+10585", "U+10586", "U+10587", "U+10588", "U+10589",
  "U+1058A", "U+1058C", "U+1058D", "U+1058E", "U+1058F", "U+10590", "U+10591", "U+10592",
  "U+10594", "U+10595", "U+10C80", "U+10C81", "U+10C82", "U+10C83", "U+10C84", "U+10C85",
  "U+10C86", "U+10C87", "U+10C88", "U+10C89", "U+10C8A", "U+10C8B", "U+10C8C", "U+10C8D",
  "U+10C8E", "U+10C8F", "U+10C90", "U+10C91", "U+10C92", "U+10C93", "U+10C94", "U+10C95",
  "U+10C96", "U+10C97", "U+10C98", "U+10C99", "U+10C9A", "U+10C9B", "U+10C9C", "U+10C9D",
  "U+10C9E", "U+10C9F", "U+10CA0", "U+10CA1", "U+10CA2", "U+10CA3", "U+10CA4", "U+10CA5",
  "U+10CA6", "U+10CA7", "U+10CA8", "U+10CA9", "U+10CAA", "U+10CAB", "U+10CAC", "U+10CAD",
  "U+10CAE", "U+10CAF", "U+10CB0", "U+10CB1", "U+10CB2", "U+118A0", "U+118A1", "U+118A2",
  "U+118A3", "U+118A4", "U+118A5", "U+118A6", "U+118A7", "U+118A8", "U+118A9", "U+118AA",
  "U+118AB", "U+118AC", "U+118AD", "U+118AE", "U+118AF", "U+118B0", "U+118B1", "U+118B2",
  "U+118B3", "U+118B4", "U+118B5", "U+118B6", "U+118B7", "U+118B8", "U+118B9", "U+118BA",
  "U+118BB", "U+118BC", "U+118BD", "U+118BE", "U+118BF", "U+16E40", "U+16E41", "U+16E42",
  "U+16E43", "U+16E44", "U+16E45", "U+16E46", "U+16E47", "U+16E48", "U+16E49", "U+16E4A",
  "U+16E4B", "U+16E4C", "U+16E4D", "U+16E4E", "U+16E4F", "U+16E50", "U+16E51", "U+16E52",
  "U+16E53", "U+16E54", "U+16E55", "U+16E56", "U+16E57", "U+16E58", "U+16E59", "U+16E5A",
  "U+16E5B", "U+16E5C", "U+16E5D", "U+16E5E", "U+16E5F", "U+1E900", "U+1E901", "U+1E902",
  "U+1E903", "U+1E904", "U+1E905", "U+1E906", "U+1E907", "U+1E908", "U+1E909", "U+1E90A",
  "U+1E90B", "U+1E90C", "U+1E90D", "U+1E90E", "U+1E90F", "U+1E910", "U+1E911", "U+1E912",
  "U+1E913", "U+1E914", "U+1E915", "U+1E916", "U+1E917", "U+1E918", "U+1E919", "U+1E91A",
  "U+1E91B", "U+1E91C", "U+1E91D", "U+1E91E", "U+1E91F", "U+1E920", "U+1E921"
>>

\* Their lower case under unicode.ToLower, position by position: the dotted
\* capital I (U+0130) becomes "i" and the Kelvin sign (U+212A) becomes "k"
LowerUnicode == <<
  "U+00E0", "U+00E1", "U+00E2", "U+00E3", "U+00E4", "U+00E5", "U+00E6", "U+00E7",
  "U+00E8", "U+00E9", "U+00EA", "U+00EB", "U+00EC", "U+00ED", "U+00EE", "U+00EF",
  "U+00F0", "U+00F1", "U+00F2", "U+00F3", "U+00F4", "U+00F5", "U+00F6", "U+00F8",
  "U+00F9", "U+00FA", "U+00FB", "U+00FC", "U+00FD", "U+00FE", "U+0101", "U+0103",
  "U+0105", "U+0107", "U+0109", "U+010B", "U+010D", "U+010F", "U+0111", "U+0113",
  "U+0115", "U+0117", "U+0119", "U+011B", "U+011D", "U+011F", "U+0121", "U+0123",
  "U+0125", "U+0127", "U+0129", "U+012B", "U+012D", "U+012F", "i", "U+0133",
  "U+0135", "U+0137", "U+013A", "U+013C", "U+013E", "U+0140", "U+0142", "U+0144",
  "U+0146", "U+0148", "U+014B", "U+014D", "U+014F", "U+0151", "U+0153", "U+0155",
  "U+0157", "U+0159", "U+015B", "U+015D", "U+015F", "U+0161", "U+0163", "U+0165",
  "U+0167", "U+0169", "U+016B", "U+016D", "U+016F", "U+0171", "U+0173", "U+0175",
  "U+0177", "U+00FF", "U+017A", "U+017C", "U+017E", "U+0253", "U+0183", "U+0185",
  "U+0254", "U+0188", "U+0256", "U+0257", "U+018C", "U+01DD", "U+0259", "U+025B",
  "U+0192", "U+0260", "U+0263", "U+0269", "U+0268", "U+0199", "U+026F", "U+0272",
  "U+0275", "U+01A1", "U+01A3", "U+01A5", "U+0280", "U+01A8", "U+0283", "U+01AD",
  "U+0288", "U+01B0", "U+028A", "U+028B", "U+01B4", "U+01B6", "U+0292", "U+01B9",
  "U+01BD", "U+01C6", "U+01C6", "U+01C9", "U+01C9", "U+01CC", "U+01CC", "U+01CE",
  "U+01D0", "U+01D2", "U+01D4", "U+01D6", "U+01D8", "U+01DA", "U+01DC", "U+01DF",
  "U+01E1", "U+01E3", "U+01E5", "U+01E7", "U+01E9", "U+01EB", "U+01ED", "U+01EF",
  "U+01F3", "U+01F3", "U+01F5", "U+0195", "U+01BF", "U+01F9", "U+01FB", "U+01FD",
  "U+01FF", "U+0201", "U+0203", "U+0205", "U+0207", "U+0209", "U+020B", "U+020D",
  "U+020F", "U+0211", "U+0213", "U+0215", "U+0217", "U+0219", "U+021B", "U+021D",
  "U+021F", "U+019E", "U+0223", "U+0225", "U+0227", "U+0229", "U+022B", "U+022D",
  "U+022F", "U+0231", "U+0233", "U+2C65", "U+023C", "U+019A", "U+2C66", "U+0242",
  "U+0180", "U+0289", "U+028C", "U+0247", "U+0249", "U+024B", "U+024D", "U+024F",
  "U+0371", "U+0373", "U+0377", "U+03F3", "U+03AC", "U+03AD", "U+03AE", "U+03AF",
  "U+03CC", "U+03CD", "U+03CE", "U+03B1", "U+03B2", "U+03B3", "U+03B4", "U+03B5",
  "U+03B6", "U+03B7", "U+03B8", "U+03B9", "U+03BA", "U+03BB", "U+03BC", "U+03BD",
  "U+03BE", "U+03BF", "U+03C0", "U+03C1", "U+03C3", "U+03C4", "U+03C5", "U+03C6",
  "U+03C7", "U+03C8", "U+03C9", "U+03CA", "U+03CB", "U+03D7", "U+03D9", "U+03DB",
  "U+03DD", "U+03DF", "U+03E1", "U+03E3", "U+03E5", "U+03E7", "U+03E9", "U+03EB",
  "U+03ED", "U+03EF", "U+03B8", "U+03F8", "U+03F2", "U+03FB", "U+037B", "U+037C",
  "U+037D", "U+0450", "U+0451", "U+0452", "U+0453", "U+0454", "U+0455", "U+0456",
  "U+0457", "U+0458", "U+0459", "U+045A", "U+045B", "U+045C", "U+045D", "U+045E",
  "U+045F", "U+0430", "U+0431", "U+0432", "U+0433", "U+0434", "U+0435", "U+0436",
  "U+0437", "U+0438", "U+0439", "U+043A", "U+043B", "U+043C", "U+043D", "U+043E",
  "U+043F", "U+0440", "U+0441", "U+0442", "U+0443", "U+0444", "U+0445", "U+0446",
  "U+0447", "U+0448", "U+0449", "U+044A", "U+044B", "U+044C", "U+044D", "U+044E",
  "U+044F", "U+0461", "U+0463", "U+0465", "U+0467", "U+0469", "U+046B", "U+046D",
  "U+046F", "U+0471", "U+0473", "U+0475", "U+0477", "U+0479", "U+047B", "U+047D",
  "U+047F", "U+0481", "U+048B", "U+048D", "U+048F", "U+0491", "U+0493", "U+0495",
  "U+0497", "U+0499", "U+049B", "U+049D", "U+049F", "U+04A1", "U+04A3", "U+04A5",
  "U+04A7", "U+04A9", "U+04AB", "U+04AD", "U+04AF", "U+04B1", "U+04B3", "U+04B5",
  "U+04B7", "U+04B9", "U+04BB", "U+04BD", "U+04BF", "U+04CF", "U+04C2", "U+04C4",
  "U+04C6", "U+04C8", "U+04CA", "U+04CC", "U+04CE", "U+04D1", "U+04D3", "U+04D5",
  "U+04D7", "U+04D9", "U+04DB", "U+04DD", "U+04DF", "U+04E1", "U+04E3", "U+04E5",
  "U+04E7", "U+04E9", "U+04EB", "U+04ED", "U+04EF", "U+04F1", "U+04F3", "U+04F5",
  "U+04F7", "U+04F9", "U+04FB", "U+04FD", "U+04FF", "U+0501", "U+0503", "U+0505",
  "U+0507", "U+0509", "U+050B", "U+050D", "U+050F", "U+0511", "U+0513", "U+0515",
  "U+0517", "U+0519", "U+051B", "U+051D", "U+051F", "U+0521", "U+0523", "U+0525",
  "U+0527", "U+0529", "U+052B", "U+052D", "U+052F", "U+0561", "U+0562", "U+0563",
  "U+0564", "U+0565", "U+0566", "U+0567", "U+0568", "U+0569", "U+056A", "U+056B",
  "U+056C", "U+056D", "U+056E", "U+056F", "U+0570", "U+0571", "U+0572", "U+0573",
  "U+0574", "U+0575", "U+0576", "U+0577", "U+0578", "U+0579", "U+057A", "U+057B",
  "U+057C", "U+057D", "U+057E", "U+057F", "U+0580", "U+0581", "U+0582", "U+0583",
  "U+0584", "U+0585", "U+0586", "U+2D00", "U+2D01", "U+2D02", "U+2D03", "U+2D04",
  "U+2D05", "U+2D06", "U+2D07", "U+2D08", "U+2D09", "U+2D0A", "U+2D0B", "U+2D0C",
  "U+2D0D", "U+2D0E", "U+2D0F", "U+2D10", "U+2D11", "U+2D12", "U+2D13", "U+2D14",
  "U+2D15", "U+2D16", "U+2D17", "U+2D18", "U+2D19", "U+2D1A", "U+2D1B", "U+2D1C",
  "U+2D1D", "U+2D1E", "U+2D1F", "U+2D20", "U+2D21", "U+2D22", "U+2D23", "U+2D24",
  "U+2D25", "U+2D27", "U+2D2D", "U+AB70", "U+AB71", "U+AB72", "U+AB73", "U+AB74",
  "U+AB75", "U+AB76", "U+AB77", "U+AB78", "U+AB79", "U+AB7A", "U+AB7B", "U+AB7C",
  "U+AB7D", "U+AB7E", "U+AB7F", "U+AB80", "U+AB81", "U+AB82", "U+AB83", "U+AB84",
  "U+AB85", "U+AB86", "U+AB87", "U+AB88", "U+AB89", "U+AB8A", "U+AB8B", "U+AB8C",
  "U+AB8D", "U+AB8E", "U+AB8F", "U+AB90", "U+AB91", "U+AB92", "U+AB93", "U+AB94",
  "U+AB95", "U+AB96", "U+AB97", "U+AB98", "U+AB99", "U+AB9A", "U+AB9B", "U+AB9C",
  "U+AB9D", "U+AB9E", "U+AB9F", "U+ABA0", "U+ABA1", "U+ABA2", "U+ABA3", "U+ABA4",
  "U+ABA5", "U+ABA6", "U+ABA7", "U+ABA8", "U+ABA9", "U+ABAA", "U+ABAB", "U+ABAC",
  "U+ABAD", "U+ABAE", "U+ABAF", "U+ABB0", "U+ABB1", "U+ABB2", "U+ABB3", "U+ABB4",
  "U+ABB5", "U+ABB6", "U+ABB7", "U+ABB8", "U+ABB9", "U+ABBA", "U+ABBB", "U+ABBC",
  "U+ABBD", "U+ABBE", "U+ABBF", "U+13F8", "U+13F9", "U+13FA", "U+13FB", "U+13FC",
  "U+13FD", "U+10D0", "U+10D1", "U+10D2", "U+10D3", "U+10D4", "U+10D5", "U+10D6",
  "U+10D7", "U+10D8", "U+10D9", "U+10DA", "U+10DB", "U+10DC", "U+10DD", "U+10DE",
  "U+10DF", "U+10E0", "U+10E1", "U+10E2", "U+10E3", "U+10E4", "U+10E5", "U+10E6",
  "U+10E7", "U+10E8", "U+10E9", "U+10EA", "U+10EB", "U+10EC", "U+10ED", "U+10EE",
  "U+10EF", "U+10F0", "U+10F1", "U+10F2", "U+10F3", "U+10F4", "U+10F5", "U+10F6",
  "U+10F7", "U+10F8", "U+10F9", "U+10FA", "U+10FD", "U+10FE", "U+10FF", "U+1E01",
  "U+1E03", "U+1E05", "U+1E07", "U+1E09", "U+1E0B", "U+1E0D", "U+1E0F", "U+1E11",
  "U+1E13", "U+1E15", "U+1E17", "U+1E19", "U+1E1B", "U+1E1D", "U+1E1F", "U+1E21",
  "U+1E23", "U+1E25", "U+1E27", "U+1E29", "U+1E2B", "U+1E2D", "U+1E2F", "U+1E31",
  "U+1E33", "U+1E35", "U+1E37", "U+1E39", "U+1E3B", "U+1E3D", "U+1E3F", "U+1E41",
  "U+1E43", "U+1E45", "U+1E47", "U+1E49", "U+1E4B", "U+1E4D", "U+1E4F", "U+1E51",
  "U+1E53", "U+1E55", "U+1E57", "U+1E59", "U+1E5B", "U+1E5D", "U+1E5F", "U+1E61",
  "U+1E63", "U+1E65", "U+1E67", "U+1E69", "U+1E6B", "U+1E6D", "U+1E6F", "U+1E71",
  "U+1E73", "U+1E75", "U+1E77", "U+1E79", "U+1E7B", "U+1E7D", "U+1E7F", "U+1E81",
  "U+1E83", "U+1E85", "U+1E87", "U+1E89", "U+1E8B", "U+1E8D", "U+1E8F", "U+1E91",
  "U+1E93", "U+1E95", "U+00DF", "U+1EA1", "U+1EA3", "U+1EA5", "U+1EA7", "U+1EA9",
  "U+1EAB", "U+1EAD", "U+1EAF", "U+1EB1", "U+1EB3", "U+1EB5", "U+1EB7", "U+1EB9",
  "U+1EBB", "U+1EBD", "U+1EBF", "U+1EC1", "U+1EC3", "U+1EC5", "U+1EC7", "U+1EC9",
  "U+1ECB", "U+1ECD", "U+1ECF", "U+1ED1", "U+1ED3", "U+1ED5", "U+1ED7", "U+1ED9",
  "U+1EDB", "U+1EDD", "U+1EDF", "U+1EE1", "U+1EE3", "U+1EE5", "U+1EE7", "U+1EE9",
  "U+1EEB", "U+1EED", "U+1EEF", "U+1EF1", "U+1EF3", "U+1EF5", "U+1EF7", "U+1EF9",
  "U+1EFB", "U+1EFD", "U+1EFF", "U+1F00", "U+1F01", "U+1F02", "U+1F03", "U+1F04",
  "U+1F05", "U+1F06", "U+1F07", "U+1F10", "U+1F11", "U+1F12", "U+1F13", "U+1F14",
  "U+1F15", "U+1F20", "U+1F21", "U+1F22", "U+1F23", "U+1F24", "U+1F25", "U+1F26",
  "U+1F27", "U+1F30", "U+1F31", "U+1F32", "U+1F33", "U+1F34", "U+1F35", "U+1F36",
  "U+1F37", "U+1F40", "U+1F41", "U+1F42", "U+1F43", "U+1F44", "U+1F45", "U+1F51",
  "U+1F53", "U+1F55", "U+1F57", "U+1F60", "U+1F61", "U+1F62", "U+1F63", "U+1F64",
  "U+1F65", "U+1F66", "U+1F67", "U+1F80", "U+1F81", "U+1F82", "U+1F83", "U+1F84",
  "U+1F85", "U+1F86", "U+1F87", "U+1F90", "U+1F91", "U+1F92", "U+1F93", "U+1F94",
  "U+1F95", "U+1F96", "U+1F97", "U+1FA0", "U+1FA1", "U+1FA2", "U+1FA3", "U+1FA4",
  "U+1FA5", "U+1FA6", "U+1FA7", "U+1FB0", "U+1FB1", "U+1F70", "U+1F71", "U+1FB3",
  "U+1F72", "U+1F73", "U+1F74", "U+1F75", "U+1FC3", "U+1FD0", "U+1FD1", "U+1F76",
  "U+1F77", "U+1FE0", "U+1FE1", "U+1F7A", "U+1F7B", "U+1FE5", "U+1F78", "U+1F79",
  "U+1F7C", "U+1F7D", "U+1FF3", "U+03C9", "k", "U+00E5", "U+214E", "U+2170",
  "U+2171", "U+2172", "U+2173", "U+2174", "U+2175", "U+2176", "U+2177", "U+2178",
  "U+2179", "U+217A", "U+217B", "U+217C", "U+217D", "U+217E", "U+217F", "U+2184",
  "U+24D0", "U+24D1", "U+24D2", "U+24D3", "U+24D4", "U+24D5", "U+24D6", "U+24D7",
  "U+24D8", "U+24D9", "U+24DA", "U+24DB", "U+24DC", "U+24DD", "U+24DE", "U+24DF",
  "U+24E0", "U+24E1", "U+24E2", "U+24E3", "U+24E4", "U+24E5", "U+24E6", "U+24E7",
  "U+24E8", "U+24E9", "U+2C30", "U+2C31", "U+2C32", "U+2C33", "U+2C34", "U+2C35",
  "U+2C36", "U+2C37", "U+2C38", "U+2C39", "U+2C3A", "U+2C3B", "U+2C3C", "U+2C3D",
  "U+2C3E", "U+2C3F", "U+2C40", "U+2C41", "U+2C42", "U+2C43", "U+2C44", "U+2C45",
  "U+2C46", "U+2C47", "U+2C48", "U+2C49", "U+2C4A", "U+2C4B", "U+2C4C", "U+2C4D",
  "U+2C4E", "U+2C4F", "U+2C50", "U+2C51", "U+2C52", "U+2C53", "U+2C54", "U+2C55",
  "U+2C56", "U+2C57", "U+2C58", "U+2C59", "U+2C5A", "U+2C5B", "U+2C5C", "U+2C5D",
  "U+2C5E", "U+2C5F", "U+2C61", "U+026B", "U+1D7D", "U+027D", "U+2C68", "U+2C6A",
  "U+2C6C", "U+0251", "U+0271", "U+0250", "U+0252", "U+2C73", "U+2C76", "U+023F",
  "U+0240", "U+2C81", "U+2C83", "U+2C85", "U+2C87", "U+2C89", "U+2C8B", "U+2C8D",
  "U+2C8F", "U+2C91", "U+2C93", "U+2C95", "U+2C97", "U+2C99", "U+2C9B", "U+2C9D",
  "U+2C9F", "U+2CA1", "U+2CA3", "U+2CA5", "U+2CA7", "U+2CA9", "U+2CAB", "U+2CAD",
  "U+2CAF", "U+2CB1", "U+2CB3", "U+2CB5", "U+2CB7", "U+2CB9", "U+2CBB", "U+2CBD",
  "U+2CBF", "U+2CC1", "U+2CC3", "U+2CC5", "U+2CC7", "U+2CC9", "U+2CCB", "U+2CCD",
  "U+2CCF", "U+2CD1", "U+2CD3", "U+2CD5", "U+2CD7", "U+2CD9", "U+2CDB", "U+2CDD",
  "U+2CDF", "U+2CE1", "U+2CE3", "U+2CEC", "U+2CEE", "U+2CF3", "U+A641", "U+A643",
  "U+A645", "U+A647", "U+A649", "U+A64B", "U+A64D", "U+A64F", "U+A651", "U+A653",
  "U+A655", "U+A657", "U+A659", "U+A65B", "U+A65D", "U+A65F", "U+A661", "U+A663",
  "U+A665", "U+A667", "U+A669", "U+A66B", "U+A66D", "U+A681", "U+A683", "U+A685",
  "U+A687", "U+A689", "U+A68B", "U+A68D", "U+A68F", "U+A691", "U+A693", "U+A695",
  "U+A697", "U+A699", "U+A69B", "U+A723", "U+A725", "U+A727", "U+A729", "U+A72B",
  "U+A72D", "U+A72F", "U+A733", "U+A735", "U+A737", "U+A739", "U+A73B", "U+A73D",
  "U+A73F", "U+A741", "U+A743", "U+A745", "U+A747", "U+A749", "U+A74B", "U+A74D",
  "U+A74F", "U+A751", "U+A753", "U+A755", "U+A757", "U+A759", "U+A75B", "U+A75D",
  "U+A75F", "U+A761", "U+A763", "U+A765", "U+A767", "U+A769", "U+A76B", "U+A76D",
  "U+A76F", "U+A77A", "U+A77C", "U+1D79", "U+A77F", "U+A781", "U+A783", "U+A785",
  "U+A787", "U+A78C", "U+0265", "U+A791", "U+A793", "U+A797", "U+A799", "U+A79B",
  "U+A79D", "U+A79F", "U+A7A1", "U+A7A3", "U+A7A5", "U+A7A7", "U+A7A9", "U+0266",
  "U+025C", "U+0261", "U+026C", "U+026A", "U+029E", "U+0287", "U+029D", "U+AB53",
  "U+A7B5", "U+A7B7", "U+A7B9", "U+A7BB", "U+A7BD", "U+A7BF", "U+A7C1", "U+A7C3",
  "U+A794", "U+0282", "U+1D8E", "U+A7C8", "U+A7CA", "U+A7D1", "U+A7D7", "U+A7D9",
  "U+A7F6", "U+FF41", "U+FF42", "U+FF43", "U+FF44", "U+FF45", "U+FF46", "U+FF47",
  "U+FF48", "U+FF49", "U+FF4A", "U+FF4B", "U+FF4C", "U+FF4D", "U+FF4E", "U+FF4F",
  "U+FF50", "U+FF51", "U+FF52", "U+FF53", "U+FF54", "U+FF55", "U+FF56", "U+FF57",
  "U+FF58", "U+FF59", "U+FF5A", "U+10428", "U+10429", "U+1042A", "U+1042B", "U+1042C",
  "U+1042D", "U+1042E", "U+1042F", "U+10430", "U+10431", "U+10432", "U+10433", "U+10434",
  "U+10435", "U+10436", "U+10437", "U+10438", "U+10439", "U+1043A", "U+1043B", "U+1043C",
  "U+1043D", "U+1043E", "U+1043F", "U+10440", "U+10441", "U+10442", "U+10443", "U+10444",
  "U+10445", "U+10446", "U+10447", "U+10448", "U+10449", "U+1044A", "U+1044B", "U+1044C",
  "U+1044D", "U+1044E", "U+1044F", "U+104D8", "U+104D9", "U+104DA", "U+104DB", "U+104DC",
  "U+104DD", "U+104DE", "U+104DF", "U+104E0", "U+104E1", "U+104E2", "U+104E3", "U+104E4",
  "U+104E5", "U+104E6", "U+104E7", "U+104E8", "U+104E9", "U+104EA", "U+104EB", "U+104EC",
  "U+104ED", "U+104EE", "U+104EF", "U+104F0", "U+104F1", "U+104F2", "U+104F3", "U+104F4",
  "U+104F5", "U+104F6", "U+104F7", "U+104F8", "U+104F9", "U+104FA", "U+104FB", "U+10597",
  "U+10598", "U+10599", "U+1059A", "U+1059B", "U+1059C", "U+1059D", "U+1059E", "U+1059F",
  "U+105A0", "U+105A1", "U+105A3", "U+105A4", "U+105A5", "U+105A6", "U+105A7", "U+105A8",
  "U+105A9", "U+105AA", "U+105AB", "U+105AC", "U+105AD", "U+105AE", "U+105AF", "U+105B0",
  "U+105B1", "U+105B3", "U+105B4", "U+105B5", "U+105B6", "U+105B7", "U+105B8", "U+105B9",
  "U+105BB", "U+105BC", "U+10CC0", "U+10CC1", "U+10CC2", "U+10CC3", "U+10CC4", "U+10CC5",
  "U+10CC6", "U+10CC7", "U+10CC8", "U+10CC9", "U+10CCA", "U+10CCB", "U+10CCC", "U+10CCD",
  "U+10CCE", "U+10CCF", "U+10CD0", "U+10CD1", "U+10CD2", "U+10CD3", "U+10CD4", "U+10CD5",
  "U+10CD6", "U+10CD7", "U+10CD8", "U+10CD9", "U+10CDA", "U+10CDB", "U+10CDC", "U+10CDD",
  "U+10CDE", "U+10CDF", "U+10CE0", "U+10CE1", "U+10CE2", "U+10CE3", "U+10CE4", "U+10CE5",
  "U+10CE6", "U+10CE7", "U+10CE8", "U+10CE9", "U+10CEA", "U+10CEB", "U+10CEC", "U+10CED",
  "U+10CEE", "U+10CEF", "U+10CF0", "U+10CF1", "U+10CF2", "U+118C0", "U+118C1", "U+118C2",
  "U+118C3", "U+118C4", "U+118C5", "U+118C6", "U+118C7", "U+118C8", "U+118C9", "U+118CA",
  "U+118CB", "U+118CC", "U+118CD", "U+118CE", "U+118CF", "U+118D0", "U+118D1", "U+118D2",
  "U+118D3", "U+118D4", "U+118D5", "U+118D6", "U+118D7", "U+118D8", "U+118D9", "U+118DA",
  "U+118DB", "U+118DC", "U+118DD", "U+118DE", "U+118DF", "U+16E60", "U+16E61", "U+16E62",
  "U+16E63", "U+16E64", "U+16E65", "U+16E66", "U+16E67", "U+16E68", "U+16E69", "U+16E6A",
  "U+16E6B", "U+16E6C", "U+16E6D", "U+16E6E", "U+16E6F", "U+16E70", "U+16E71", "U+16E72",
  "U+16E73", "U+16E74", "U+16E75", "U+16E76", "U+16E77", "U+16E78", "U+16E79", "U+16E7A",
  "U+16E7B", "U+16E7C", "U+16E7D", "U+16E7E", "U+16E7F", "U+1E922", "U+1E923", "U+1E924",
  "U+1E925", "U+1E926", "U+1E927", "U+1E928", "U+1E929", "U+1E92A", "U+1E92B", "U+1E92C",
  "U+1E92D", "U+1E92E", "U+1E92F", "U+1E930", "U+1E931", "U+1E932", "U+1E933", "U+1E934",
  "U+1E935", "U+1E936", "U+1E937", "U+1E938", "U+1E939", "U+1E93A", "U+1E93B", "U+1E93C",
  "U+1E93D", "U+1E93E", "U+1E93F", "U+1E940", "U+1E941", "U+1E942", "U+1E943"
>>

UpperUnicodeSet == {UpperUnicode[i] : i \in 1..Len(UpperUnicode)}

\* unicode.ToLower on one character
LowerChar(c) ==
  IF \E i \in 1..Len(Upper) : Upper[i] = c
  THEN Lower[CHOOSE i \in 1..Len(Upper) : Upper[i] = c]
  ELSE IF c \in UpperUnicodeSet
  THEN LowerUnicode[CHOOSE i \in 1..Len(UpperUnicode) : UpperUnicode[i] = c]
  ELSE c

\* strings.ToLower
ToLower(s) == [i \in 1..Len(s) |-> LowerChar(s[i])]

\* unicode.IsSpace: the characters with the Unicode property White_Space.
\* A character that cannot be written in a string is named by its code point.
IsSpace(c) ==
  c \in {"\t", "\n", "U+000B", "\f", "\r", " ", "U+0085", "U+00A0",
         "U+1680", "U+2000", "U+2001", "U+2002", "U+2003", "U+2004", "U+2005",
         "U+2006", "U+2007", "U+2008", "U+2009", "U+200A", "U+2028", "U+2029",
         "U+202F", "U+205F", "U+3000"}

\* strings.TrimSpace: drop leading and trailing white space
TrimSpace(s) ==
  LET idx == {i \in 1..Len(s) : ~IsSpace(s[i])}
  IN  IF idx = {} THEN <<>>
      ELSE LET lo == CHOOSE i \in idx : \A j \in idx : i <= j
               hi == CHOOSE i \in idx : \A j \in idx : i >= j
           IN  SubSeq(s, lo, hi)

\* strings.Contains
Contains(s, sub) ==
  \E i \in 1..(Len(s) - Len(sub) + 1) : SubSeq(s, i, i + Len(sub) - 1) = sub

\* service.go:217-219, the three phrases tested
PhraseInitiate == <<"i","n","i","t","i","a","t","e"," ","a","l","f","r","e","d",
                    " ","p","r","o","t","o","c","o","l">>
PhraseHi == <<"h","i"," ","a","l","f","r","e","d">>
PhraseHey == <<"h","e","y"," ","a","l","f","r","e","d">>

\* mutant of IsWakeWord: the text is not lowercased before the test
IsWakeWordCaseSensitive(text) ==
  LET t == TrimSpace(text)
  IN  Contains(t, PhraseInitiate) \/ Contains(t, PhraseHi) \/ Contains(t, PhraseHey)

\* config.go:28: WakeWord of DefaultConfig, sent to every peer in the config
\* message (service.go:260-263)
WakeWord == <<"a","l","f","r","e","d">>

\* service.go:216-219
IsWakeWord(text) ==
  LET lowerText == ToLower(TrimSpace(text))
  IN  Contains(lowerText, PhraseInitiate) \/ Contains(lowerText, PhraseHi)
        \/ Contains(lowerText, PhraseHey)

\* mutant of MakeResult: the result is not marked final
MakeResultNotFinal(w, text) ==
  [id |-> w, text |-> text, isFinal |-> FALSE, isWakeWord |-> IsWakeWord(text)]

\* service.go:225-229; id is the number of the flush whose window produced it
\* (history only, not a field of TranscriptionResult)
MakeResult(w, text) ==
  [id |-> w, text |-> text, isFinal |-> TRUE, isWakeWord |-> IsWakeWord(text)]

\* the zero TranscriptionResult a receive from the closed results channel yields
ZeroResult == [id |-> 0, text |-> <<>>, isFinal |-> FALSE, isWakeWord |-> FALSE]

\* model.go:70-79: the text Transcribe returns for the segments the engine
\* found, in order: out += seg.Text + " " for every segment
RECURSIVE Transcribe(_)
Transcribe(segments) ==
  IF segments = <<>> THEN <<>>
  ELSE Head(segments) \o <<" ">> \o Transcribe(Tail(segments))

\* Segment texts (seg.Text), named by what was said
TextHey == <<"H","e","y">>
TextHello == <<"h","e","l","l","o">>
\* "Hey Alfred, what's up"
TextHeyAlfredWhatsUp ==
  <<"H","e","y"," ","A","l","f","r","e","d",","," ","w","h","a",
    "t","'","s"," ","u","p">>
\* "hello friend"
TextHelloFriend ==
  <<"h","e","l","l","o"," ","f","r","i","e","n","d">>
\* "  HI ALFRED  "
TextHiAlfredPadded ==
  <<" "," ","H","I"," ","A","L","F","R","E","D"," "," ">>
\* "\fhi alfred\f"
TextHiAlfredFormFeed ==
  <<"\f","h","i"," ","a","l","f","r","e","d","\f">>
\* "h\u0130 alfred": the capital dotted I lowers to "i"
TextHiAlfredDottedI ==
  <<"h","U+0130"," ","a","l","f","r","e","d">>
\* "Initiate Alfred Protocol"
TextInitiate ==
  <<"I","n","i","t","i","a","t","e"," ","A","l","f","r","e","d",
    " ","P","r","o","t","o","c","o","l">>
\* "hey alfredo"
TextHeyAlfredo ==
  <<"h","e","y"," ","a","l","f","r","e","d","o">>
\* "hey, alfred"
TextHeyCommaAlfred ==
  <<"h","e","y",","," ","a","l","f","r","e","d">>
\* "alfred"
TextAlfred ==
  <<"a","l","f","r","e","d">>
\* the speech of the wake-phrase scenario that the engine finds as one
\* segment
WakeSegments == {TextHeyAlfredWhatsUp,
                 TextHelloFriend,
                 TextHiAlfredPadded,
                 TextHiAlfredFormFeed,
                 TextHiAlfredDottedI,
                 TextInitiate,
                 TextHeyAlfredo,
                 TextHeyCommaAlfred,
                 TextAlfred}
\* the texts Transcribe returns in the wake-phrase scenario: each speech of
\* WakeSegments, and "Hey alfred " found as two segments
WakeTexts == {Transcribe(<<segment>>) : segment \in WakeSegments}
               \cup {Transcribe(<<TextHey, TextAlfred>>)}
\* "hello ", the text Transcribe returns in the scenarios with one text
EngineHello == Transcribe(<<TextHello>>)
\* what Transcribe returns in the pipeline model: "Hey alfred " and "hello "
EngineTexts == {Transcribe(<<TextHey, TextAlfred>>), EngineHello}

(************************** inbound text frames ***************************)
\* The payload of an inbound websocket message, as far as json.Unmarshal
\* into a []float32 tells payloads apart: t is the kind of the JSON value
\* ("invalid" when the payload is not JSON), and for an array n is the number
\* of its elements, nulls how many of them are null, others how many are
\* neither a number that fits a float32 nor null.
JsonValue(t, n, nulls, others) == [t |-> t, n |-> n, nulls |-> nulls, others |-> others]
NoFrame == JsonValue("none", 0, 0, 0)
\* [0.1, ...] with n numbers
FrameSamples(n) == JsonValue("array", n, 0, 0)
\* null
FrameNull == JsonValue("null", 0, 0, 0)
\* {"audioData": [...]}
FrameObject == JsonValue("object", 0, 0, 0)
\* a payload that is not JSON
FrameInvalid == JsonValue("invalid", 0, 0, 0)
\* an array of 4000 elements one of which is a string
FrameStringElement == JsonValue("array", 4000, 0, 1)
Frames == {FrameSamples(48000), FrameNull, FrameObject, FrameInvalid,
           FrameStringElement}

\* service.go:288-289: json.Unmarshal(message, &audioData) with audioData a
\* nil []float32.  A payload that is not JSON is a syntax error; null is
\* accepted and leaves the slice nil; any other non-array value is a type
\* error; an array is decoded element by element, null elements leave the
\* zero value, an element of another type makes the call return a type
\* error.  len is len(audioData) after a call without error.
Unmarshal(payload) ==
  [err |-> \/ payload.t \notin {"array", "null"}
           \/ payload.t = "array" /\ payload.others > 0,
   len |-> IF payload.t = "array" THEN payload.n ELSE 0]

(****************************** variables *********************************)
VARIABLES
  running,      \* s.running
  modelLoaded,  \* s.model # nil
  mu,           \* holder of s.mu: "free", "worker", "close"
  cancelled,    \* contexts (numbered by Initialize) whose cancel was called
  acc,          \* processAudio goroutines, one per context: pc, audioBuffer
  bc,           \* goroutines inside broadcastResults or BroadcastResult
  audioQueue,   \* s.audioQueue buffer
  audioClosed,  \* close(s.audioQueue) was executed
  results,      \* s.results buffer
  resultsClosed,\* close(s.results) was executed
  workers,      \* transcribeAudio goroutines, in flush order
  connections,  \* s.connections
  connReaders,  \* goroutines holding s.connMutex.RLock
  conns,        \* the websocket connections accepted so far, each with its
                \* handleWebSocket goroutine
  pa,           \* the ProcessAudio calls made so far: argument and outcome
  emitted,      \* flush numbers in the order their results were sent (history)
  closePc,      \* position of the Close call in progress
  closes,       \* number of completed Close calls
  panicked,     \* "none" or the runtime panic that ended the process
  wk,           \* wake-phrase check: input text, split point, results
  whisperService, \* handler.go:27, the global: "nil" or "service"
  inits,        \* the InitWhisperService calls made so far: whether
                \* NewWhisperService was called (built), with which path,
                \* the error returned, and the position of the call
  reqs,         \* the TranscribeHandler requests so far: position, response
  initCalls     \* number of Initialize calls that have returned (history)

vars == <<running, modelLoaded, mu, cancelled, acc, bc, audioQueue,
          audioClosed, results, resultsClosed, workers, connections,
          connReaders, conns, pa, emitted, closePc, closes, panicked, wk,
          whisperService, inits, reqs, initCalls>>

\* a connection just upgraded: handler pc, its ProcessAudio call in
\* progress, number of conn.Close() calls; and as history of what was
\* written to it: the kind of the first frame, the results in order, whether
\* a broadcast write to it failed and of which result.  messageCount is the
\* handler's counter of frames read (service.go:270), frame the frame it
\* read last.
NewConn == [pc |-> "config", call |-> 0, closed |-> 0, first |-> "none",
            got |-> <<>>, failed |-> FALSE, failedOn |-> 0,
            messageCount |-> 0, frame |-> NoFrame]
\* a processAudio goroutine on entry: empty audioBuffer; as history of the
\* time since the last chunk was received: whether a timer expired, and the
\* number of timeout flushes
NewAcc == [pc |-> "wait", buf |-> <<>>, timedOut |-> FALSE, idleFlushes |-> 0]
\* a broadcastResults goroutine of context ctx on entry: the result being
\* broadcast, the entries the range has not visited yet; start is the
\* registry as it was when the round took the read lock (history)
NewBc(ctx) == [pc |-> "wait", ctx |-> ctx, res |-> ZeroResult, rem |-> {},
               start |-> {}]
WkIdle == [pc |-> "idle", text |-> <<>>, cut |-> 0, whole |-> ZeroResult,
           first |-> ZeroResult, second |-> ZeroResult]
\* the history of a connection after a frame of the given kind
FirstFrame(conn, kind) == IF conn.first = "none" THEN kind ELSE conn.first

\* len(audioBuffer): total number of samples of the chunks appended
RECURSIVE BufLen(_)
BufLen(buf) == IF buf = <<>> THEN 0 ELSE Head(buf).len + BufLen(Tail(buf))

\* state after NewWhisperService (service.go:72-78)
InitService ==
  /\ running = FALSE
  /\ modelLoaded = TRUE
  /\ mu = "free"
  /\ cancelled = {}
  /\ acc = <<>>
  /\ bc = <<>>
  /\ audioQueue = <<>>
  /\ audioClosed = FALSE
  /\ results = <<>>
  /\ resultsClosed = FALSE
  /\ workers = <<>>
  /\ connections = {}
  /\ connReaders = {}
  /\ conns = <<>>
  /\ pa = <<>>
  /\ emitted = <<>>
  /\ closePc = "idle"
  /\ closes = 0
  /\ panicked = "none"
  /\ initCalls = 0

\* handler.go:27-28: the global is nil until InitWhisperService sets it
InitGlobals ==
  /\ whisperService = "nil"
  /\ inits = <<>>
  /\ reqs = <<>>

Init == InitService /\ InitGlobals /\ wk = WkIdle

Alive == panicked = "none"
ConnIds == 1..Len(conns)
Gens == 1..Len(acc)
BcIds == 1..Len(bc)
WorkerIds == 1..Len(workers)
CallIds == 1..Len(pa)

(****************************** Initialize ********************************)
\* mutant of MuFree: Lock never waits
MuNoWait == TRUE

\* service.go:201 (also 115, 321): s.mu.Lock() returns only when nobody holds s.mu
MuFree == mu = "free"

\* service.go:118-130, the body of Initialize under s.mu
StartLoops ==
  /\ initCalls' = initCalls + 1
  /\ IF running
     THEN UNCHANGED <<running, acc, bc>>
     ELSE /\ running' = TRUE
          /\ acc' = Append(acc, NewAcc)
          /\ bc' = Append(bc, NewBc(Len(acc) + 1))

\* service.go:114-133.  The call holds s.mu from entry to return and nothing
\* it does can block, so it is one step.  A call on a running service
\* returns at line 119 and changes nothing.
Initialize ==
  /\ Alive
  /\ MuFree
  /\ StartLoops
  /\ UNCHANGED <<modelLoaded, mu, cancelled, audioQueue, audioClosed, results,
                 resultsClosed, workers, connections, connReaders, conns,
                 pa, emitted, closePc, closes, panicked, wk,
                 whisperService, inits, reqs>>

(***************************** ProcessAudio *******************************)
\* mutant of IsRunning: the running check is skipped
IsRunningSkipped == TRUE

\* service.go:151: the unsynchronized read of s.running
IsRunning == running

\* mutant of QueueHasRoom: off by one, the send is tried on a full queue
QueueHasRoomOffByOne(q) == Len(q) <= AudioQueueCap

\* service.go:155-160: the send case of the select is ready when the buffered
\* channel is not full; otherwise the default case runs
QueueHasRoom(q) == Len(q) < AudioQueueCap

\* service.go:150-153: ProcessAudio is entered with n samples and reads
\* s.running; the call returns the error at once or goes on to the select.
\* The chunk is named by the number of the call.
ProcessAudioEnter(n) ==
  pa' = Append(pa, [len |-> n,
                    st |-> IF IsRunning THEN "select" ELSE "not running"])

\* service.go:155-160: the select of call k.  A send on a closed channel
\* panics.
ProcessAudioSelect(k) ==
  /\ pa[k].st = "select"
  /\ IF audioClosed
     THEN /\ panicked' = "send on closed channel"
          /\ UNCHANGED <<audioQueue, pa>>
     ELSE /\ panicked' = panicked
          /\ IF QueueHasRoom(audioQueue)
             THEN /\ audioQueue' = Append(audioQueue, [id |-> k, len |-> pa[k].len])
                  /\ pa' = [pa EXCEPT ![k].st = "ok"]
             ELSE /\ audioQueue' = audioQueue
                  /\ pa' = [pa EXCEPT ![k].st = "queue full"]

\* the ProcessAudio calls in progress in handleWebSocket goroutines and in
\* TranscribeHandler requests
HandlerCalls == {conns[c].call : c \in ConnIds} \cup
                {reqs[q].call : q \in 1..Len(reqs)}

\* ProcessAudio called by a goroutine other than a connection handler
\* (service.go:150, exported): entry
ProcessAudio(n) ==
  /\ Alive
  /\ ProcessAudioEnter(n)
  /\ UNCHANGED <<running, modelLoaded, mu, cancelled, acc, bc, audioQueue,
                 audioClosed, results, resultsClosed, workers, connections,
                 connReaders, conns, emitted, closePc, closes, panicked, wk,
                 whisperService, inits, reqs, initCalls>>

\* the same call at its select
ProcessAudioReturn(k) ==
  /\ Alive
  /\ k \notin HandlerCalls
  /\ ProcessAudioSelect(k)
  /\ UNCHANGED <<running, modelLoaded, mu, cancelled, acc, bc, audioClosed,
                 results, resultsClosed, workers, connections, connReaders,
                 conns, emitted, closePc, closes, wk,
                 whisperService, inits, reqs, initCalls>>

(*************************** handleWebSocket ******************************)
\* handler.go:71-80 and service.go:234-242: a connection is upgraded and
\* added.  connMutex.Lock waits for the readers; the body cannot block, so
\* lock, insert, go, unlock are one step.
AddWebSocket ==
  /\ Alive
  /\ connReaders = {}
  /\ conns' = Append(conns, NewConn)
  /\ connections' = connections \cup {Len(conns) + 1}
  /\ UNCHANGED <<running, modelLoaded, mu, cancelled, acc, bc, audioQueue,
                 audioClosed, results, resultsClosed, workers, connReaders,
                 pa, emitted, closePc, closes, panicked, wk,
                 whisperService, inits, reqs, initCalls>>

\* gorilla/websocket: reads and writes work only on a connection that was
\* not closed on this side
CanWrite(c) == conns[c].closed = 0

\* mutant of RemoveWebSocket: an absent connection is put back
RemoveWebSocketToggle(registry, c) ==
  IF c \in registry THEN registry \ {c} ELSE registry \cup {c}

\* mutant of RemoveWebSocket: nothing is deleted
RemoveWebSocketKeep(registry, c) == registry

\* service.go:245-250: delete(s.connections, conn), a no-op on an absent key
RemoveWebSocket(registry, c) == registry \ {c}

\* service.go:245-250: RemoveWebSocket (exported) called on connection c by a
\* goroutine other than its handler.  connMutex.Lock waits for the readers;
\* lock, delete and unlock are one step.
RemoveWebSocketCall(c) ==
  /\ Alive
  /\ connReaders = {}
  /\ connections' = RemoveWebSocket(connections, c)
  /\ UNCHANGED <<running, modelLoaded, mu, cancelled, acc, bc, audioQueue,
                 audioClosed, results, resultsClosed, workers, connReaders,
                 conns, pa, emitted, closePc, closes, panicked, wk,
                 whisperService, inits, reqs, initCalls>>

\* service.go:254-255 with RemoveWebSocket 245-250: the handler returns and
\* the first statement of its deferred teardown runs.  connMutex.Lock waits
\* for the readers; RemoveWebSocket deletes and unlocks, and conn.Close() is
\* still to come.
Teardown(c) ==
  /\ connReaders = {}
  /\ connections' = RemoveWebSocket(connections, c)
  /\ conns' = [conns EXCEPT ![c].pc = "close"]

\* service.go:256: conn.Close(), the second statement of the deferred
\* teardown, after which the handler goroutine is over
HandlerClose(c) ==
  /\ Alive
  /\ conns[c].pc = "close"
  /\ conns' = [conns EXCEPT ![c].closed = @ + 1, ![c].pc = "done"]
  /\ UNCHANGED <<running, modelLoaded, mu, cancelled, acc, bc, audioQueue,
                 audioClosed, results, resultsClosed, workers, connections,
                 connReaders, pa, emitted, closePc, closes, panicked, wk,
                 whisperService, inits, reqs, initCalls>>

\* service.go:260-263, 269-272: conn.WriteJSON(configMsg) succeeds and the
\* handler reaches ReadMessage
HandlerConfig(c) ==
  /\ Alive
  /\ conns[c].pc = "config"
  /\ CanWrite(c)
  /\ conns' = [conns EXCEPT ![c].first = FirstFrame(conns[c], "config"),
                            ![c].pc = "read"]
  /\ UNCHANGED <<running, modelLoaded, mu, cancelled, acc, bc, audioQueue,
                 audioClosed, results, resultsClosed, workers, connections,
                 connReaders, pa, emitted, closePc, closes, panicked, wk,
                 whisperService, inits, reqs, initCalls>>

\* service.go:264-267 and 254-257: conn.WriteJSON(configMsg) fails (the peer
\* is gone, or the connection was closed on this side); the handler returns
\* and its deferred teardown runs up to the return of RemoveWebSocket
HandlerConfigError(c, peerGone) ==
  /\ Alive
  /\ conns[c].pc = "config"
  /\ peerGone \/ ~CanWrite(c)
  /\ Teardown(c)
  /\ UNCHANGED <<running, modelLoaded, mu, cancelled, acc, bc, audioQueue,
                 audioClosed, results, resultsClosed, workers, connReaders,
                 pa, emitted, closePc, closes, panicked, wk,
                 whisperService, inits, reqs, initCalls>>

\* service.go:272-280 and 254-257: conn.ReadMessage() returns an error (the
\* peer is gone, or the connection was closed on this side); the handler
\* returns and its deferred teardown runs up to the return of RemoveWebSocket
HandlerReadError(c, peerGone) ==
  /\ Alive
  /\ conns[c].pc = "read"
  /\ peerGone \/ ~CanWrite(c)
  /\ Teardown(c)
  /\ UNCHANGED <<running, modelLoaded, mu, cancelled, acc, bc, audioQueue,
                 audioClosed, results, resultsClosed, workers, connReaders,
                 pa, emitted, closePc, closes, panicked, wk,
                 whisperService, inits, reqs, initCalls>>

\* service.go:272-299 and 150-153: conn.ReadMessage returns a frame, the
\* handler counts it and unmarshals it; on an error it goes back to
\* ReadMessage (continue), otherwise ProcessAudio is entered with the slice
HandlerReadFrame(c, payload) ==
  /\ Alive
  /\ conns[c].pc = "read"
  /\ CanWrite(c)
  /\ LET audioData == Unmarshal(payload)
         counted == [conns[c] EXCEPT !.messageCount = @ + 1, !.frame = payload]
     IN  IF audioData.err
         THEN /\ conns' = [conns EXCEPT ![c] = counted]
              /\ pa' = pa
         ELSE /\ ProcessAudioEnter(audioData.len)
              /\ conns' = [conns EXCEPT ![c] =
                             IF IsRunning
                             THEN [counted EXCEPT !.call = Len(pa) + 1, !.pc = "call"]
                             ELSE counted]
  /\ UNCHANGED <<running, modelLoaded, mu, cancelled, acc, bc, audioQueue,
                 audioClosed, results, resultsClosed, workers, connections,
                 connReaders, emitted, closePc, closes, panicked, wk,
                 whisperService, inits, reqs, initCalls>>

\* service.go:299-301 and 155-160: the handler's ProcessAudio call at its
\* select.  A send on the closed channel panics; the handler goroutine has
\* no recover, so the panic unwinds it and its deferred teardown is to run.
HandlerSend(c) ==
  /\ Alive
  /\ conns[c].pc = "call"
  /\ IF audioClosed
     THEN /\ pa[conns[c].call].st = "select"
          /\ conns' = [conns EXCEPT ![c].pc = "panicking"]
          /\ UNCHANGED <<audioQueue, pa, panicked>>
     ELSE /\ ProcessAudioSelect(conns[c].call)
          /\ conns' = [conns EXCEPT ![c].pc = "read", ![c].call = 0]
  /\ UNCHANGED <<running, modelLoaded, mu, cancelled, acc, bc, audioClosed,
                 results, resultsClosed, workers, connections, connReaders,
                 emitted, closePc, closes, wk,
                 whisperService, inits, reqs, initCalls>>

\* service.go:254-255 with RemoveWebSocket 245-250, run by the panic of the
\* handler: connMutex.Lock waits for the readers, while the other goroutines
\* run on; RemoveWebSocket deletes and unlocks
HandlerPanicRemove(c) ==
  /\ Alive
  /\ conns[c].pc = "panicking"
  /\ connReaders = {}
  /\ connections' = RemoveWebSocket(connections, c)
  /\ conns' = [conns EXCEPT ![c].pc = "panicking close"]
  /\ UNCHANGED <<running, modelLoaded, mu, cancelled, acc, bc, audioQueue,
                 audioClosed, results, resultsClosed, workers, connReaders,
                 pa, emitted, closePc, closes, panicked, wk,
                 whisperService, inits, reqs, initCalls>>

\* service.go:256, run by the panic of the handler: conn.Close(); no deferred
\* call is left and the runtime ends the process
HandlerPanicClose(c) ==
  /\ Alive
  /\ conns[c].pc = "panicking close"
  /\ conns' = [conns EXCEPT ![c].closed = @ + 1, ![c].pc = "done"]
  /\ panicked' = "send on closed channel"
  /\ UNCHANGED <<running, modelLoaded, mu, cancelled, acc, bc, audioQueue,
                 audioClosed, results, resultsClosed, workers, connections,
                 connReaders, pa, emitted, closePc, closes, wk,
                 whisperService, inits, reqs, initCalls>>

(***************************** processAudio *******************************)
\* mutant of NewWorker: only the chunk received last is handed over
NewWorkerLastChunk(window) ==
  [pc |-> "pending", window |-> <<window[Len(window)]>>, res |-> ZeroResult]

\* a transcribeAudio goroutine just started by `go`, with its argument
NewWorker(window) == [pc |-> "pending", window |-> window, res |-> ZeroResult]

\* mutant of BufferFull: strict comparison
BufferFullStrict(buf) == BufLen(buf) > bufferSize

\* service.go:182
BufferFull(buf) == BufLen(buf) >= bufferSize

\* mutant of TimeoutFlush: any buffer that holds samples is flushed on timeout
TimeoutFlushNonEmpty(buf) == BufLen(buf) > 0

\* mutant of TimeoutFlush: any buffer is flushed on timeout
TimeoutFlushAlways(buf) == BufLen(buf) >= 0

\* service.go:190
TimeoutFlush(buf) == BufLen(buf) >= minBufferSize

\* mutant of AfterFlush: the flushed window stays in the buffer
AfterFlushKeep(buf) == buf

\* service.go:185, 193: audioBuffer = nil
AfterFlush(buf) == <<>>

\* mutant of AccDone: the loop goes round again instead of returning
AccDoneContinue(g) ==
  /\ Alive
  /\ acc[g].pc = "wait"
  /\ g \in cancelled
  /\ UNCHANGED vars

\* service.go:174-175
AccDone(g) ==
  /\ Alive
  /\ acc[g].pc = "wait"
  /\ g \in cancelled
  /\ acc' = [acc EXCEPT ![g].pc = "done"]
  /\ UNCHANGED <<running, modelLoaded, mu, cancelled, bc, audioQueue,
                 audioClosed, results, resultsClosed, workers, connections,
                 connReaders, conns, pa, emitted, closePc, closes,
                 panicked, wk,
                 whisperService, inits, reqs, initCalls>>

\* mutant of AccRecv: transcribeAudio is called without `go`, so the loop is
\* back at its select only when every worker it started has returned
AccRecvSynchronous(g) ==
  /\ Alive
  /\ acc[g].pc = "wait"
  /\ \A w \in 1..Len(workers) : workers[w].pc \in {"emitted", "failed", "no model"}
  /\ audioQueue # <<>>
  /\ audioQueue' = Tail(audioQueue)
  /\ LET audioBuffer == Append(acc[g].buf, Head(audioQueue))
     IN  IF BufferFull(audioBuffer)
         THEN /\ workers' = Append(workers, NewWorker(audioBuffer))
              /\ acc' = [acc EXCEPT ![g].buf = AfterFlush(audioBuffer),
                                    ![g].timedOut = FALSE,
                                    ![g].idleFlushes = 0]
         ELSE /\ workers' = workers
              /\ acc' = [acc EXCEPT ![g].buf = audioBuffer,
                                    ![g].timedOut = FALSE,
                                    ![g].idleFlushes = 0]
  /\ UNCHANGED <<running, modelLoaded, mu, cancelled, bc, audioClosed,
                 results, resultsClosed, connections, connReaders, conns,
                 pa, emitted, closePc, closes, panicked, wk,
                 whisperService, inits, reqs, initCalls>>

\* service.go:177-186: a chunk is received, appended, and the buffer flushed
\* when it has reached bufferSize
AccRecv(g) ==
  /\ Alive
  /\ acc[g].pc = "wait"
  /\ audioQueue # <<>>
  /\ audioQueue' = Tail(audioQueue)
  /\ LET audioBuffer == Append(acc[g].buf, Head(audioQueue))
     IN  IF BufferFull(audioBuffer)
         THEN /\ workers' = Append(workers, NewWorker(audioBuffer))
              /\ acc' = [acc EXCEPT ![g].buf = AfterFlush(audioBuffer),
                                    ![g].timedOut = FALSE,
                                    ![g].idleFlushes = 0]
         ELSE /\ workers' = workers
              /\ acc' = [acc EXCEPT ![g].buf = audioBuffer,
                                    ![g].timedOut = FALSE,
                                    ![g].idleFlushes = 0]
  /\ UNCHANGED <<running, modelLoaded, mu, cancelled, bc, audioClosed,
                 results, resultsClosed, connections, connReaders, conns,
                 pa, emitted, closePc, closes, panicked, wk,
                 whisperService, inits, reqs, initCalls>>

\* service.go:177-186 on the closed queue: the receive yields nil at once,
\* nothing is appended, the length test runs on the unchanged buffer
AccRecvClosed(g) ==
  /\ Alive
  /\ acc[g].pc = "wait"
  /\ audioQueue = <<>>
  /\ audioClosed
  /\ LET audioBuffer == acc[g].buf
     IN  IF BufferFull(audioBuffer)
         THEN /\ workers' = Append(workers, NewWorker(audioBuffer))
              /\ acc' = [acc EXCEPT ![g].buf = AfterFlush(audioBuffer)]
         ELSE /\ workers' = workers
              /\ acc' = acc
  /\ UNCHANGED <<running, modelLoaded, mu, cancelled, bc, audioQueue,
                 audioClosed, results, resultsClosed, connections, connReaders,
                 conns, pa, emitted, closePc, closes, panicked, wk,
                 whisperService, inits, reqs, initCalls>>

\* service.go:188-194: the timer of this iteration expires, which takes
\* 500 ms in which neither other case of the select became ready
AccTimeout(g) ==
  /\ Alive
  /\ acc[g].pc = "wait"
  /\ g \notin cancelled
  /\ audioQueue = <<>>
  /\ ~audioClosed
  /\ LET audioBuffer == acc[g].buf
     IN  IF TimeoutFlush(audioBuffer)
         THEN /\ workers' = Append(workers, NewWorker(audioBuffer))
              /\ acc' = [acc EXCEPT ![g].buf = AfterFlush(audioBuffer),
                                    ![g].timedOut = TRUE,
                                    ![g].idleFlushes = @ + 1]
         ELSE /\ workers' = workers
              /\ acc' = [acc EXCEPT ![g].timedOut = TRUE]
  /\ UNCHANGED <<running, modelLoaded, mu, cancelled, bc, audioQueue,
                 audioClosed, results, resultsClosed, connections, connReaders,
                 conns, pa, emitted, closePc, closes, panicked, wk,
                 whisperService, inits, reqs, initCalls>>

(**************************** transcribeAudio *****************************)
\* service.go:201-207: the worker takes s.mu; with s.model == nil it returns
\* at once (the deferred Unlock runs), otherwise it enters model.Transcribe
WorkerLock(w) ==
  /\ Alive
  /\ workers[w].pc = "pending"
  /\ MuFree
  /\ IF modelLoaded
     THEN /\ mu' = "worker"
          /\ workers' = [workers EXCEPT ![w].pc = "transcribing"]
     ELSE /\ mu' = mu
          /\ workers' = [workers EXCEPT ![w].pc = "no model"]
  /\ UNCHANGED <<running, modelLoaded, cancelled, acc, bc, audioQueue,
                 audioClosed, results, resultsClosed, connections, connReaders,
                 conns, pa, emitted, closePc, closes, panicked, wk,
                 whisperService, inits, reqs, initCalls>>

\* mutant of WorkerEngineError: the failed worker returns without releasing
\* s.mu
WorkerEngineErrorKeepsLock(w) ==
  /\ Alive
  /\ workers[w].pc = "transcribing"
  /\ workers' = [workers EXCEPT ![w].pc = "failed"]
  /\ UNCHANGED <<running, modelLoaded, mu, cancelled, acc, bc, audioQueue,
                 audioClosed, results, resultsClosed, connections, connReaders,
                 conns, pa, emitted, closePc, closes, panicked, wk,
                 whisperService, inits, reqs, initCalls>>

\* service.go:209-213: model.Transcribe returns an error; the worker logs it
\* and returns, releasing s.mu
WorkerEngineError(w) ==
  /\ Alive
  /\ workers[w].pc = "transcribing"
  /\ workers' = [workers EXCEPT ![w].pc = "failed"]
  /\ mu' = "free"
  /\ UNCHANGED <<running, modelLoaded, cancelled, acc, bc, audioQueue,
                 audioClosed, results, resultsClosed, connections, connReaders,
                 conns, pa, emitted, closePc, closes, panicked, wk,
                 whisperService, inits, reqs, initCalls>>

\* service.go:209-229: model.Transcribe returns text, the result is built
\* and the worker reaches the send of line 230 still holding s.mu
WorkerTranscribed(w, text) ==
  /\ Alive
  /\ workers[w].pc = "transcribing"
  /\ workers' = [workers EXCEPT ![w].pc = "send", ![w].res = MakeResult(w, text)]
  /\ UNCHANGED <<running, modelLoaded, mu, cancelled, acc, bc, audioQueue,
                 audioClosed, results, resultsClosed, connections, connReaders,
                 conns, pa, emitted, closePc, closes, panicked, wk,
                 whisperService, inits, reqs, initCalls>>

\* service.go:230-231: s.results <- result blocks while the channel is full;
\* then the worker returns and releases s.mu.  A send on the closed channel
\* panics.
WorkerSend(w) ==
  /\ Alive
  /\ workers[w].pc = "send"
  /\ IF resultsClosed
     THEN /\ panicked' = "send on closed channel"
          /\ UNCHANGED <<results, emitted, workers, mu>>
     ELSE /\ Len(results) < ResultsCap
          /\ results' = Append(results, workers[w].res)
          /\ emitted' = Append(emitted, w)
          /\ workers' = [workers EXCEPT ![w].pc = "emitted", ![w].res = ZeroResult]
          /\ mu' = "free"
          /\ panicked' = panicked
  /\ UNCHANGED <<running, modelLoaded, cancelled, acc, bc, audioQueue,
                 audioClosed, resultsClosed, connections, connReaders, conns,
                 pa, closePc, closes, wk,
                 whisperService, inits, reqs, initCalls>>

(***************************** broadcasting *******************************)
\* service.go:140-141
BroadcasterDone(b) ==
  /\ Alive
  /\ bc[b].pc = "wait"
  /\ bc[b].ctx \in cancelled
  /\ bc' = [bc EXCEPT ![b].pc = "done"]
  /\ UNCHANGED <<running, modelLoaded, mu, cancelled, acc, audioQueue,
                 audioClosed, results, resultsClosed, workers, connections,
                 connReaders, conns, pa, emitted, closePc, closes,
                 panicked, wk,
                 whisperService, inits, reqs, initCalls>>

\* service.go:307-310: BroadcastResult is entered with res, takes the read
\* lock and starts to range over s.connections.  RLock never waits here:
\* every holder of the write lock releases it within its own step.
StartRound(ctx, res) == [pc |-> "round", ctx |-> ctx, res |-> res,
                         rem |-> connections, start |-> connections]

\* service.go:142: broadcastResults receives a result, which it is about to
\* pass to BroadcastResult
BroadcasterRecv(b) ==
  /\ Alive
  /\ bc[b].pc = "wait"
  /\ results # <<>>
  /\ bc' = [bc EXCEPT ![b].pc = "lock", ![b].res = Head(results)]
  /\ results' = Tail(results)
  /\ connReaders' = connReaders
  /\ UNCHANGED <<running, modelLoaded, mu, cancelled, acc, audioQueue,
                 audioClosed, resultsClosed, workers, connections, conns,
                 pa, emitted, closePc, closes, panicked, wk,
                 whisperService, inits, reqs, initCalls>>

\* the same on the closed and drained channel: the receive yields the zero
\* TranscriptionResult at once
BroadcasterRecvClosed(b) ==
  /\ Alive
  /\ bc[b].pc = "wait"
  /\ results = <<>>
  /\ resultsClosed
  /\ bc' = [bc EXCEPT ![b].pc = "lock", ![b].res = ZeroResult]
  /\ connReaders' = connReaders
  /\ UNCHANGED <<running, modelLoaded, mu, cancelled, acc, audioQueue,
                 audioClosed, results, resultsClosed, workers, connections,
                 conns, pa, emitted, closePc, closes, panicked, wk,
                 whisperService, inits, reqs, initCalls>>

\* service.go:143, 306-310: broadcastResults calls BroadcastResult with the
\* result it received; s.connMutex.RLock() returns when no writer holds the
\* lock (the writers hold it for one step each) and the range starts
BroadcastRLock(b) ==
  /\ Alive
  /\ bc[b].pc = "lock"
  /\ bc' = [bc EXCEPT ![b] = StartRound(bc[b].ctx, bc[b].res)]
  /\ connReaders' = connReaders \cup {b}
  /\ UNCHANGED <<running, modelLoaded, mu, cancelled, acc, audioQueue,
                 audioClosed, results, resultsClosed, workers, connections,
                 conns, pa, emitted, closePc, closes, panicked, wk,
                 whisperService, inits, reqs, initCalls>>

\* service.go:306-310: BroadcastResult (exported) called with res by a
\* goroutine other than broadcastResults, which has context 0
BroadcastResult(res) ==
  /\ Alive
  /\ bc' = Append(bc, StartRound(0, res))
  /\ connReaders' = connReaders \cup {Len(bc) + 1}
  /\ UNCHANGED <<running, modelLoaded, mu, cancelled, acc, audioQueue,
                 audioClosed, results, resultsClosed, workers, connections,
                 conns, pa, emitted, closePc, closes, panicked, wk,
                 whisperService, inits, reqs, initCalls>>

\* mutant of Prune: the failed connection stays registered
PruneKeep(registry, c) == registry

\* service.go:314: delete(s.connections, conn)
Prune(registry, c) == registry \ {c}

\* mutant of RestOfRound: the entry just written to stays to be visited
RestOfRoundRevisit(rem, c, sent) == IF sent THEN rem ELSE rem \ {c}

\* mutant of RestOfRound: a failed write ends the round
RestOfRoundAbort(rem, c, sent) == IF sent THEN rem \ {c} ELSE {}

\* service.go:310: the range goes on with the entries not yet visited,
\* whether or not the write to c succeeded
RestOfRound(rem, c, sent) == rem \ {c}

\* service.go:310-315: one iteration of the range, on an entry still in the
\* map; ok is whether the peer takes the frame
BroadcastWrite(b, c, ok) ==
  /\ Alive
  /\ bc[b].pc = "round"
  /\ c \in bc[b].rem
  /\ c \in connections
  /\ LET sent == ok /\ CanWrite(c)
     IN  /\ bc' = [bc EXCEPT ![b].rem = RestOfRound(@, c, sent)]
         /\ IF sent
            THEN /\ conns' = [conns EXCEPT ![c].first = FirstFrame(conns[c], "result"),
                                           ![c].got = Append(@, bc[b].res.id)]
                 /\ connections' = connections
            ELSE /\ conns' = [conns EXCEPT ![c].closed = @ + 1,
                                           ![c].failed = TRUE,
                                           ![c].failedOn = bc[b].res.id]
                 /\ connections' = Prune(connections, c)
  /\ UNCHANGED <<running, modelLoaded, mu, cancelled, acc, audioQueue,
                 audioClosed, results, resultsClosed, workers, connReaders,
                 pa, emitted, closePc, closes, panicked, wk,
                 whisperService, inits, reqs, initCalls>>

\* service.go:308, 316-317: the range is over and the deferred RUnlock runs;
\* broadcastResults goes back to its select, another caller returns
BroadcastEnd(b) ==
  /\ Alive
  /\ bc[b].pc = "round"
  /\ bc[b].rem \cap connections = {}
  /\ bc' = [bc EXCEPT ![b] = [NewBc(bc[b].ctx) EXCEPT
                                !.pc = IF bc[b].ctx = 0 THEN "returned" ELSE "wait"]]
  /\ connReaders' = connReaders \ {b}
  /\ UNCHANGED <<running, modelLoaded, mu, cancelled, acc, audioQueue,
                 audioClosed, results, resultsClosed, workers, connections,
                 conns, pa, emitted, closePc, closes, panicked, wk,
                 whisperService, inits, reqs, initCalls>>

(********************************* Close **********************************)
\* service.go:321-328: Close takes s.mu, cancels the latest context (if
\* Initialize ever made one) and clears s.running
CloseBegin ==
  /\ Alive
  /\ closePc = "idle"
  /\ MuFree
  /\ mu' = "close"
  /\ cancelled' = IF Len(acc) > 0 THEN cancelled \cup {Len(acc)} ELSE cancelled
  /\ running' = FALSE
  /\ closePc' = "conns"
  /\ UNCHANGED <<modelLoaded, acc, bc, audioQueue, audioClosed, results,
                 resultsClosed, workers, connections, connReaders, conns,
                 pa, emitted, closes, panicked, wk,
                 whisperService, inits, reqs, initCalls>>

\* service.go:331-336: under the write lock, which waits for the readers,
\* every registered connection is closed and deleted
CloseConns ==
  /\ Alive
  /\ closePc = "conns"
  /\ connReaders = {}
  /\ conns' = [c \in ConnIds |-> IF c \in connections
                                 THEN [conns[c] EXCEPT !.closed = @ + 1]
                                 ELSE conns[c]]
  /\ connections' = {}
  /\ closePc' = "chans"
  /\ UNCHANGED <<running, modelLoaded, mu, cancelled, acc, bc, audioQueue,
                 audioClosed, results, resultsClosed, workers, connReaders,
                 pa, emitted, closes, panicked, wk,
                 whisperService, inits, reqs, initCalls>>

\* service.go:339-348: both channels are closed (closing a closed channel
\* panics), the model is released, the deferred Unlock runs
CloseChans ==
  /\ Alive
  /\ closePc = "chans"
  /\ IF audioClosed
     THEN /\ panicked' = "close of closed channel"
          /\ UNCHANGED <<audioClosed, resultsClosed, modelLoaded, mu, closePc,
                         closes>>
     ELSE /\ audioClosed' = TRUE
          /\ resultsClosed' = TRUE
          /\ modelLoaded' = FALSE
          /\ mu' = "free"
          /\ closePc' = "idle"
          /\ closes' = closes + 1
          /\ panicked' = panicked
  /\ UNCHANGED <<running, cancelled, acc, bc, audioQueue, results,
                 workers, connections, connReaders, conns, pa, emitted, wk,
                 whisperService, inits, reqs, initCalls>>

(******************************* handler.go *******************************)
\* What Config.ModelPath names: no file, a file whisper.New cannot load, a
\* loadable model file ("url", an http(s) URL, is left out of the scenarios)
ModelPaths == {"missing", "unloadable", "model"}

\* mutant of NewWhisperServiceError: construction always succeeds
NewWhisperServiceNoError(path) == "none"

\* service.go:44-79 with model.go:27-47: the error NewWhisperService returns.
\* A path without http(s) prefix is resolved and must exist (service.go:51-58);
\* NewModel then stats the path itself, which fails for a URL too
\* (model.go:33-35), and loads it (model.go:38-41).
NewWhisperServiceError(path) ==
  CASE path = "missing" -> "model file not found"
    [] path = "url" -> "failed to initialize whisper model"
    [] path = "unloadable" -> "failed to initialize whisper model"
    [] OTHER -> "none"

\* handler.go:22-29: serviceMutex is free unless an InitWhisperService call
\* is between its Initialize call and its return
ServiceMutexFree == \A i \in 1..Len(inits) : inits[i].pc = "returned"

\* handler.go:32-47.  serviceMutex.Lock waits for the call that holds it.  A
\* call that finds the global set, or whose NewWhisperService fails, returns;
\* otherwise Initialize is called on the new instance, which is in the state
\* InitService and not yet visible to any other goroutine, and the call is
\* at the assignment of the global, still holding serviceMutex.
InitWhisperService(path) ==
  /\ Alive
  /\ ServiceMutexFree
  /\ IF whisperService # "nil"
     THEN /\ inits' = Append(inits, [path |-> "", err |-> "none",
                                     built |-> FALSE, pc |-> "returned"])
          /\ UNCHANGED <<running, acc, bc, initCalls>>
     ELSE LET err == NewWhisperServiceError(path)
          IN  IF err # "none"
              THEN /\ inits' = Append(inits, [path |-> path, err |-> err,
                                              built |-> TRUE, pc |-> "returned"])
                   /\ UNCHANGED <<running, acc, bc, initCalls>>
              ELSE /\ inits' = Append(inits, [path |-> path, err |-> err,
                                              built |-> TRUE, pc |-> "publish"])
                   /\ MuFree
                   /\ StartLoops
  /\ UNCHANGED <<modelLoaded, mu, cancelled, audioQueue, audioClosed, results,
                 resultsClosed, workers, connections, connReaders, conns,
                 pa, emitted, closePc, closes, panicked, wk, reqs,
                 whisperService>>

\* handler.go:49-50 and 34: whisperService = service, return nil and the
\* deferred serviceMutex.Unlock()
InitWhisperServicePublish ==
  /\ Alive
  /\ ~ServiceMutexFree
  /\ whisperService' = "service"
  /\ inits' = [inits EXCEPT ![Len(inits)].pc = "returned"]
  /\ UNCHANGED <<running, modelLoaded, mu, cancelled, acc, bc, audioQueue,
                 audioClosed, results, resultsClosed, workers, connections,
                 connReaders, conns, pa, emitted, closePc, closes, panicked,
                 wk, reqs, initCalls>>

\* The body of a POST to the one-shot endpoint, as far as Decode tells bodies
\* apart: t is the kind of the top-level JSON value, audioData the value of
\* the member "audioData" of an object (NoFrame when absent).
Body(t, audioData) == [t |-> t, audioData |-> audioData]
\* {"audioData": [...]} with n numbers
BodySamples(n) == Body("object", FrameSamples(n))
\* a body that is not JSON
BodyInvalid == Body("invalid", NoFrame)
\* {"audioData": {...}}
BodyWrongType == Body("object", FrameObject)
Bodies == {BodySamples(4000), BodySamples(48000), BodyInvalid, BodyWrongType}
\* the requests made: a POST with each body, and a GET with a body a POST
\* would be accepted with
Requests == {<<"POST", body>> : body \in Bodies} \cup {<<"GET", BodySamples(48000)>>}

\* mutant of Decode: every body is accepted
DecodeLenient(body) == [err |-> FALSE, len |-> 0]

\* handler.go:97-101: json.NewDecoder(r.Body).Decode(&request) into
\* struct{AudioData []float32}.  null and an object without the member leave
\* AudioData nil; the member is decoded as Unmarshal decodes a []float32.
Decode(body) ==
  CASE body.t = "null" -> [err |-> FALSE, len |-> 0]
    [] body.t = "object" ->
         IF body.audioData = NoFrame THEN [err |-> FALSE, len |-> 0]
         ELSE Unmarshal(body.audioData)
    [] OTHER -> [err |-> TRUE, len |-> 0]

\* a request to TranscribeHandler that has returned with an HTTP status
Responded(method, body, status, res) ==
  [pc |-> "done", method |-> method, body |-> body, call |-> 0,
   status |-> status, res |-> res]

\* handler.go:84-110 and service.go:150-153: a request arrives; method,
\* global service and body are checked in this order, then ProcessAudio is
\* entered.  A POST reads the global in GetWhisperService (handler.go:54-58),
\* which waits for serviceMutex.
TranscribeHandler(method, body) ==
  /\ Alive
  /\ method = "POST" => ServiceMutexFree
  /\ IF method # "POST"
     THEN /\ reqs' = Append(reqs, Responded(method, body, 405, ZeroResult))
          /\ pa' = pa
     ELSE IF whisperService = "nil"
     THEN /\ reqs' = Append(reqs, Responded(method, body, 503, ZeroResult))
          /\ pa' = pa
     ELSE IF Decode(body).err
     THEN /\ reqs' = Append(reqs, Responded(method, body, 400, ZeroResult))
          /\ pa' = pa
     ELSE /\ ProcessAudioEnter(Decode(body).len)
          /\ reqs' = Append(reqs,
                IF IsRunning
                THEN [Responded(method, body, 0, ZeroResult) EXCEPT
                        !.pc = "call", !.call = Len(pa) + 1]
                ELSE Responded(method, body, 500, ZeroResult))
  /\ UNCHANGED <<running, modelLoaded, mu, cancelled, acc, bc, audioQueue,
                 audioClosed, results, resultsClosed, workers, connections,
                 connReaders, conns, emitted, closePc, closes, panicked, wk,
                 whisperService, inits, initCalls>>

\* handler.go:107-110 and service.go:155-160: the request's ProcessAudio call
\* at its select.  net/http recovers a panic of the handler goroutine and
\* drops the request.
TranscribeSelect(q) ==
  /\ Alive
  /\ reqs[q].pc = "call"
  /\ IF audioClosed
     THEN /\ reqs' = [reqs EXCEPT ![q].pc = "aborted", ![q].call = 0]
          /\ UNCHANGED <<audioQueue, pa, panicked>>
     ELSE /\ ProcessAudioSelect(reqs[q].call)
          /\ reqs' = [reqs EXCEPT ![q] =
                IF QueueHasRoom(audioQueue)
                THEN [reqs[q] EXCEPT !.pc = "wait", !.call = 0]
                ELSE [reqs[q] EXCEPT !.pc = "done", !.call = 0, !.status = 500]]
  /\ UNCHANGED <<running, modelLoaded, mu, cancelled, acc, bc, audioClosed,
                 results, resultsClosed, workers, connections, connReaders,
                 conns, emitted, closePc, closes, wk, whisperService, inits, initCalls>>

\* handler.go:113-115: result := <-service.results, then the response
TranscribeRecv(q) ==
  /\ Alive
  /\ reqs[q].pc = "wait"
  /\ results # <<>> \/ resultsClosed
  /\ IF results # <<>>
     THEN /\ reqs' = [reqs EXCEPT ![q].pc = "done", ![q].status = 200,
                                  ![q].res = Head(results)]
          /\ results' = Tail(results)
     ELSE /\ reqs' = [reqs EXCEPT ![q].pc = "done", ![q].status = 200]
          /\ results' = results
  /\ UNCHANGED <<running, modelLoaded, mu, cancelled, acc, bc, audioQueue,
                 audioClosed, resultsClosed, workers, connections, connReaders,
                 conns, pa, emitted, closePc, closes, panicked, wk,
                 whisperService, inits, initCalls>>

ReqIds == 1..Len(reqs)

(***************************** specifications *****************************)
\* Pipeline scenario: a service on which one client calls ProcessAudio up to
\* PipeChunks times, one call after the other, with chunks of the lengths of
\* ChunkLens; Initialize and Close are called at any moment, and no websocket
\* connects.
Next ==
  \/ initCalls < MaxInits /\ Initialize
  \/ \E n \in ChunkLens : /\ Len(pa) < PipeChunks
                          /\ \A k \in CallIds : pa[k].st # "select"
                          /\ ProcessAudio(n)
  \/ \E k \in CallIds : ProcessAudioReturn(k)
  \/ \E g \in Gens : AccDone(g)
  \/ \E g \in Gens : AccRecv(g)
  \/ \E g \in Gens : AccRecvClosed(g)
  \/ \E g \in Gens : AccTimeout(g)
  \/ \E w \in WorkerIds : WorkerLock(w)
  \/ \E w \in WorkerIds : WorkerEngineError(w)
  \/ \E w \in WorkerIds, text \in EngineTexts : WorkerTranscribed(w, text)
  \/ \E w \in WorkerIds : WorkerSend(w)
  \/ \E b \in BcIds : BroadcasterDone(b)
  \/ \E b \in BcIds : BroadcasterRecv(b)
  \/ \E b \in BcIds : BroadcastRLock(b)
  \/ \E b \in BcIds : BroadcasterRecvClosed(b)
  \/ \E b \in BcIds : BroadcastEnd(b)
  \/ closes < MaxCloses /\ CloseBegin
  \/ CloseConns
  \/ CloseChans

Spec == Init /\ [][Next]_vars

\* Load scenario: on a service initialized once and never closed, one client
\* brings up to BusyChunks chunks of a full window each, one call after the
\* other; the engine transcribes every window and no websocket connects.
NextBusy ==
  \/ Len(acc) = 0 /\ Initialize
  \/ /\ Len(pa) < BusyChunks
     /\ \A k \in CallIds : pa[k].st # "select"
     /\ ProcessAudio(bufferSize)
  \/ \E k \in CallIds : ProcessAudioReturn(k)
  \/ \E g \in Gens : AccRecv(g)
  \/ \E g \in Gens : AccTimeout(g)
  \/ \E w \in WorkerIds : WorkerLock(w)
  \/ \E w \in WorkerIds : WorkerTranscribed(w, EngineHello)
  \/ \E w \in WorkerIds : WorkerSend(w)
  \/ \E b \in BcIds : BroadcasterRecv(b)
  \/ \E b \in BcIds : BroadcastRLock(b)
  \/ \E b \in BcIds : BroadcastEnd(b)

SpecBusy == Init /\ [][NextBusy]_vars

\* Lifecycle scenario: Initialize is called up to LifeInits times and Close
\* up to LifeCloses times, at any moment, on a service to which one client
\* brings up to LifeChunks chunks of a full window each; the engine
\* transcribes every window and no websocket connects.
NextLife ==
  \/ initCalls < LifeInits /\ Initialize
  \/ /\ Len(pa) < LifeChunks
     /\ \A k \in CallIds : pa[k].st # "select"
     /\ ProcessAudio(bufferSize)
  \/ \E k \in CallIds : ProcessAudioReturn(k)
  \/ \E g \in Gens : AccDone(g)
  \/ \E g \in Gens : AccRecv(g)
  \/ \E g \in Gens : AccRecvClosed(g)
  \/ \E g \in Gens : AccTimeout(g)
  \/ \E w \in WorkerIds : WorkerLock(w)
  \/ \E w \in WorkerIds : WorkerTranscribed(w, EngineHello)
  \/ \E w \in WorkerIds : WorkerSend(w)
  \/ \E b \in BcIds : BroadcasterDone(b)
  \/ \E b \in BcIds : BroadcasterRecv(b)
  \/ \E b \in BcIds : BroadcastRLock(b)
  \/ \E b \in BcIds : BroadcasterRecvClosed(b)
  \/ \E b \in BcIds : BroadcastEnd(b)
  \/ closes < LifeCloses /\ CloseBegin
  \/ CloseConns
  \/ CloseChans

SpecLife == Init /\ [][NextLife]_vars

\* The same where a select chooses fairly among its ready cases: a loop that
\* comes to its select again and again with ctx.Done() ready takes that case
\* in the end (service.go:139-146, 172-196), and a broadcast round that can
\* end does.
SpecLifeFair ==
  /\ SpecLife
  /\ SF_vars(\E g \in Gens : AccDone(g))
  /\ SF_vars(\E b \in BcIds : BroadcasterDone(b))
  /\ \A b \in 1..LifeInits :
       WF_vars(b \in BcIds /\ (BroadcastRLock(b) \/ BroadcastEnd(b)))

\* Broadcast scenario: a service on which up to CastConns websockets are
\* accepted, whose peers may refuse a frame or go away at any moment, and on
\* which one goroutine calls BroadcastResult up to CastResults times, one
\* call after the other; the service is not closed.
CastResult(k) == MakeResult(k, EngineHello)

NextCast ==
  \/ Len(conns) < CastConns /\ AddWebSocket
  \/ \E c \in ConnIds : HandlerConfig(c)
  \/ \E c \in ConnIds, peerGone \in BOOLEAN : HandlerConfigError(c, peerGone)
  \/ \E c \in ConnIds, peerGone \in BOOLEAN : HandlerReadError(c, peerGone)
  \/ \E c \in ConnIds : HandlerClose(c)
  \/ \E c \in ConnIds : RemoveWebSocketCall(c)
  \/ /\ Len(bc) < CastResults
     /\ \A b \in BcIds : bc[b].pc = "returned"
     /\ BroadcastResult(CastResult(Len(bc) + 1))
  \/ \E b \in BcIds, c \in ConnIds, ok \in BOOLEAN : BroadcastWrite(b, c, ok)
  \/ \E b \in BcIds : BroadcastEnd(b)

SpecCast == Init /\ [][NextCast]_vars

\* Session scenario: a service on which Initialize and Close are called at
\* any moment, up to SessionConns websockets are accepted, and each peer
\* sends up to SessionFrames frames out of Frames or goes away, and may
\* refuse a result; a broadcaster on the closed results channel starts a
\* round with the zero value only while every registered connection was sent
\* fewer than SessionResults results.
NextSession ==
  \/ initCalls < MaxInits /\ Initialize
  \/ Len(conns) < SessionConns /\ AddWebSocket
  \/ \E c \in ConnIds : HandlerConfig(c)
  \/ \E c \in ConnIds, peerGone \in BOOLEAN : HandlerConfigError(c, peerGone)
  \/ \E c \in ConnIds, peerGone \in BOOLEAN : HandlerReadError(c, peerGone)
  \/ \E c \in ConnIds : HandlerClose(c)
  \/ \E c \in ConnIds, payload \in Frames :
       conns[c].messageCount < SessionFrames /\ HandlerReadFrame(c, payload)
  \/ \E c \in ConnIds : HandlerSend(c)
  \/ \E c \in ConnIds : HandlerPanicRemove(c)
  \/ \E c \in ConnIds : HandlerPanicClose(c)
  \/ \E g \in Gens : AccDone(g)
  \/ \E g \in Gens : AccRecv(g)
  \/ \E g \in Gens : AccRecvClosed(g)
  \/ \E g \in Gens : AccTimeout(g)
  \/ \E w \in WorkerIds : WorkerLock(w)
  \/ \E w \in WorkerIds : WorkerEngineError(w)
  \/ \E w \in WorkerIds : WorkerTranscribed(w, EngineHello)
  \/ \E w \in WorkerIds : WorkerSend(w)
  \/ \E b \in BcIds : BroadcasterDone(b)
  \/ \E b \in BcIds : BroadcasterRecv(b)
  \/ \E b \in BcIds : BroadcastRLock(b)
  \/ \E b \in BcIds :
       /\ \A c \in connections : Len(conns[c].got) < SessionResults
       /\ BroadcasterRecvClosed(b)
  \/ \E b \in BcIds, c \in ConnIds, ok \in BOOLEAN : BroadcastWrite(b, c, ok)
  \/ \E b \in BcIds : BroadcastEnd(b)
  \/ closes < MaxCloses /\ CloseBegin
  \/ CloseConns
  \/ CloseChans

SpecSession == Init /\ [][NextSession]_vars

\* Shutdown scenario: a service initialized once, on which one websocket is
\* accepted, whose peer sends up to StopFrames frames of a full window or
\* goes away, and Close is called once, at any moment; a broadcaster
\* on the closed results channel starts a round with the zero value only
\* while every registered connection was sent fewer than StopResults results.
NextStop ==
  \/ initCalls = 0 /\ Initialize
  \/ Len(conns) = 0 /\ AddWebSocket
  \/ \E c \in ConnIds : HandlerConfig(c)
  \/ \E c \in ConnIds, peerGone \in BOOLEAN : HandlerConfigError(c, peerGone)
  \/ \E c \in ConnIds, peerGone \in BOOLEAN : HandlerReadError(c, peerGone)
  \/ \E c \in ConnIds : HandlerClose(c)
  \/ \E c \in ConnIds :
       /\ conns[c].messageCount < StopFrames
       /\ HandlerReadFrame(c, FrameSamples(bufferSize))
  \/ \E c \in ConnIds : HandlerSend(c)
  \/ \E c \in ConnIds : HandlerPanicRemove(c)
  \/ \E c \in ConnIds : HandlerPanicClose(c)
  \/ \E g \in Gens : AccDone(g)
  \/ \E g \in Gens : AccRecv(g)
  \/ \E g \in Gens : AccRecvClosed(g)
  \/ \E g \in Gens : AccTimeout(g)
  \/ \E w \in WorkerIds : WorkerLock(w)
  \/ \E w \in WorkerIds : WorkerEngineError(w)
  \/ \E w \in WorkerIds : WorkerTranscribed(w, EngineHello)
  \/ \E w \in WorkerIds : WorkerSend(w)
  \/ \E b \in BcIds : BroadcasterDone(b)
  \/ \E b \in BcIds : BroadcasterRecv(b)
  \/ \E b \in BcIds : BroadcastRLock(b)
  \/ \E b \in BcIds :
       /\ \A c \in connections : Len(conns[c].got) < StopResults
       /\ BroadcasterRecvClosed(b)
  \/ \E b \in BcIds, c \in ConnIds, ok \in BOOLEAN : BroadcastWrite(b, c, ok)
  \/ \E b \in BcIds : BroadcastEnd(b)
  \/ closes = 0 /\ CloseBegin
  \/ CloseConns
  \/ CloseChans

SpecStop == Init /\ [][NextStop]_vars

\* The same with every goroutine scheduled again and again: a step of
\* Close, of a worker or of a loop that stays possible is eventually taken,
\* and a select that is reached again and again with ctx.Done() ready takes
\* that case in the end.  Nothing is stated for conn.WriteJSON in a broadcast
\* round (service.go:311): the code sets no write deadline, so a write to a
\* peer that has stopped reading need not return.
SpecStopFair ==
  /\ SpecStop
  /\ WF_vars(CloseConns)
  /\ WF_vars(CloseChans)
  /\ WF_vars(\E w \in WorkerIds : WorkerLock(w))
  /\ WF_vars(\E w \in WorkerIds : WorkerEngineError(w) \/ WorkerTranscribed(w, EngineHello))
  /\ WF_vars(\E w \in WorkerIds : WorkerSend(w))
  /\ WF_vars(\E b \in BcIds : BroadcasterRecv(b))
  /\ WF_vars(\E b \in BcIds : BroadcastRLock(b))
  /\ WF_vars(\E b \in BcIds : BroadcastEnd(b))
  /\ SF_vars(\E b \in BcIds : BroadcasterDone(b))
  /\ SF_vars(\E g \in Gens : AccDone(g))

\* One-shot scenario: the process of handler.go, in which InitWhisperService
\* is called up to HttpInits times with the paths of ModelPaths and up to
\* HttpRequests requests out of Requests reach TranscribeHandler; no
\* websocket connects and Close is not called.
NextHttp ==
  \/ \E path \in ModelPaths : Len(inits) < HttpInits /\ InitWhisperService(path)
  \/ InitWhisperServicePublish
  \/ \E request \in Requests :
       Len(reqs) < HttpRequests /\ TranscribeHandler(request[1], request[2])
  \/ \E q \in ReqIds : TranscribeSelect(q)
  \/ \E q \in ReqIds : TranscribeRecv(q)
  \/ \E g \in Gens : AccRecv(g)
  \/ \E g \in Gens : AccTimeout(g)
  \/ \E w \in WorkerIds : WorkerLock(w)
  \/ \E w \in WorkerIds : WorkerEngineError(w)
  \/ \E w \in WorkerIds : WorkerTranscribed(w, EngineHello)
  \/ \E w \in WorkerIds : WorkerSend(w)
  \/ \E b \in BcIds : BroadcasterRecv(b)
  \/ \E b \in BcIds : BroadcastRLock(b)
  \/ \E b \in BcIds : BroadcastEnd(b)

SpecHttp == Init /\ [][NextHttp]_vars

\* The same with every goroutine scheduled again and again: each step of a
\* loop, a worker or a request that stays possible is eventually taken.
SpecHttpFair ==
  /\ SpecHttp
  /\ WF_vars(InitWhisperServicePublish)
  /\ \A q \in 1..HttpRequests :
       WF_vars(q \in ReqIds /\ TranscribeSelect(q)) /\
       WF_vars(q \in ReqIds /\ TranscribeRecv(q))
  /\ WF_vars(\E g \in Gens : AccRecv(g))
  /\ WF_vars(\E g \in Gens : AccTimeout(g))
  /\ WF_vars(\E w \in WorkerIds : WorkerLock(w))
  /\ WF_vars(\E w \in WorkerIds : WorkerEngineError(w) \/ WorkerTranscribed(w, EngineHello))
  /\ WF_vars(\E w \in WorkerIds : WorkerSend(w))
  /\ WF_vars(\E b \in BcIds : BroadcasterRecv(b))
  /\ WF_vars(\E b \in BcIds : BroadcastRLock(b))
  /\ WF_vars(\E b \in BcIds : BroadcastEnd(b))

\* Wake-phrase scenario: the result transcribeAudio builds (service.go:215-229)
\* for an engine text, and for the two texts the engine returns when the same
\* speech is cut between two consecutive windows; the cut is a position in
\* the speech, before the space that ends the text.
InitWake ==
  /\ InitService
  /\ InitGlobals
  /\ \E text \in WakeTexts : \E cut \in 0..(Len(text) - 1) :
       wk = [WkIdle EXCEPT !.pc = "input", !.text = text, !.cut = cut]

WakeResults ==
  /\ wk.pc = "input"
  /\ wk' = [wk EXCEPT
              !.pc = "done",
              !.whole = MakeResult(1, wk.text),
              !.first = MakeResult(1, Transcribe(<<SubSeq(wk.text, 1, wk.cut)>>)),
              !.second = MakeResult(2,
                 Transcribe(<<SubSeq(wk.text, wk.cut + 1, Len(wk.text) - 1)>>))]
  /\ UNCHANGED <<running, modelLoaded, mu, cancelled, acc, bc, audioQueue,
                 audioClosed, results, resultsClosed, workers, connections,
                 connReaders, conns, pa, emitted, closePc, closes, panicked,
                 whisperService, inits, reqs, initCalls>>

NextWake == WakeResults

SpecWake == InitWake /\ [][NextWake]_vars

(******************************** claims **********************************)
\* C1: at most one transcription worker is inside model.Transcribe (or past
\* it, still holding the service lock) at any moment, and that worker holds
\* s.mu; the workers of overlapping flushes wait for the lock.
C1_EngineExclusive ==
  LET inside == {w \in WorkerIds : workers[w].pc \in {"transcribing", "send"}}
  IN  /\ Cardinality(inside) <= 1
      /\ inside # {} => mu = "worker"

\* C1 happens: a worker is inside the engine call while the worker of a
\* later flush waits for the lock
C1_Witness ==
  \E v, w \in WorkerIds :
    /\ v < w
    /\ workers[v].pc = "transcribing"
    /\ workers[w].pc = "pending"

\* C2: results are put on the results channel in the order their windows
\* were flushed.
C2_EmittedInFlushOrder ==
  \A i, j \in 1..Len(emitted) : i < j => emitted[i] < emitted[j]

\* C3: a dequeued chunk that makes the open window reach SampleRate*3 launches
\* exactly one worker, with the whole window, and leaves the window empty; a
\* chunk that does not is only appended; so the window of a waiting
\* accumulator is below the threshold.
C3_ThresholdFlush ==
  /\ [](\A g \in Gens : acc[g].pc = "wait" => BufLen(acc[g].buf) < SampleRate * 3)
  /\ [][Len(audioQueue') < Len(audioQueue) =>
          \E g \in Gens :
            LET window == Append(acc[g].buf, Head(audioQueue))
            IN  /\ acc[g].pc = "wait"
                /\ \A h \in Gens \ {g} : acc'[h] = acc[h]
                /\ IF BufLen(window) >= SampleRate * 3
                   THEN /\ Len(workers') = Len(workers) + 1
                        /\ workers'[Len(workers')].window = window
                        /\ workers'[Len(workers')].pc = "pending"
                        /\ acc'[g].buf = <<>>
                   ELSE /\ workers' = workers
                        /\ acc'[g].buf = window]_vars

\* C3 happens: a window of two chunks that crossed the threshold was flushed
\* and the accumulator waits with an empty window
C3_Witness ==
  \E g \in Gens, w \in WorkerIds :
    /\ Len(workers[w].window) = 2
    /\ BufLen(workers[w].window) > SampleRate * 3
    /\ acc[g].pc = "wait"
    /\ acc[g].buf = <<>>

\* C4: in the time since the last chunk was received, a timer that expired
\* on a window of at least SampleRate/2 samples flushed it, and at most one
\* flush took place.
C4_OneFlushPerIdlePeriod ==
  \A g \in Gens :
    /\ acc[g].idleFlushes <= 1
    /\ acc[g].timedOut /\ acc[g].idleFlushes = 0 =>
         BufLen(acc[g].buf) < SampleRate \div 2
    /\ acc[g].idleFlushes = 1 =>
         /\ acc[g].timedOut
         /\ acc[g].buf = <<>>
         /\ \E w \in WorkerIds : BufLen(workers[w].window) >= SampleRate \div 2

\* C4 happens: a window of two small chunks that reached SampleRate/2 without
\* reaching SampleRate*3 was flushed by the timeout
C4_Witness ==
  \E g \in Gens, w \in WorkerIds :
    /\ acc[g].idleFlushes = 1
    /\ acc[g].pc = "wait"
    /\ g \notin cancelled
    /\ BufLen(workers[w].window) = SampleRate \div 2
    /\ Len(workers[w].window) = 2

\* C5: the queue never holds more than its capacity; a call at its select
\* can always complete; on a full queue it returns the queue-full error and
\* leaves the queue as it was, and otherwise appends its chunk.
C5_NonBlockingSubmit ==
  /\ [](Len(audioQueue) <= AudioQueueCap)
  /\ [](\A k \in CallIds :
          Alive /\ pa[k].st = "select" => ENABLED ProcessAudioReturn(k))
  /\ [][\A k \in CallIds :
          pa[k].st = "select" /\ pa'[k].st # "select" =>
            IF Len(audioQueue) = AudioQueueCap
            THEN pa'[k].st = "queue full" /\ audioQueue' = audioQueue
            ELSE /\ pa'[k].st = "ok"
                 /\ audioQueue' = Append(audioQueue, [id |-> k, len |-> pa[k].len])]_vars

\* C5 happens: on the running service a call found the queue full and
\* returned the error, the queue still holding only earlier chunks
C5_Witness ==
  \E k \in CallIds :
    /\ pa[k].st = "queue full"
    /\ running
    /\ Len(audioQueue) = AudioQueueCap
    /\ \A i \in 1..Len(audioQueue) : audioQueue[i].id < k

\* C6: a ProcessAudio call that starts while the service is not running
\* returns the not-running error, and its chunk never reaches the queue, a
\* window or a worker.
C6_NotRunningRejected ==
  /\ [][Len(pa') = Len(pa) + 1 /\ ~running =>
          pa'[Len(pa')].st = "not running" /\ audioQueue' = audioQueue]_vars
  /\ [](\A k \in CallIds : pa[k].st = "not running" =>
          /\ \A i \in 1..Len(audioQueue) : audioQueue[i].id # k
          /\ \A g \in Gens : \A i \in 1..Len(acc[g].buf) : acc[g].buf[i].id # k
          /\ \A w \in WorkerIds :
               \A i \in 1..Len(workers[w].window) : workers[w].window[i].id # k)

\* C6 happens: one call was rejected before the first Initialize, another
\* after Close
C6_Witness ==
  /\ Len(pa) = 2
  /\ pa[1].st = "not running"
  /\ pa[2].st = "not running"
  /\ Len(acc) = 1
  /\ closes = 1

\* C7: a connection on which a broadcast write failed is out of the registry
\* and out of what the round has left to visit, and no result later than the
\* one that failed was written to it.
C7_FailedConnectionPruned ==
  \A c \in ConnIds :
    conns[c].failed =>
      /\ c \notin connections
      /\ \A b \in BcIds : c \notin bc[b].rem
      /\ \A i \in 1..Len(conns[c].got) : conns[c].got[i] < conns[c].failedOn

\* C7 happens: a connection failed in the first round and another
\* connection received the results of both rounds
C7_Witness ==
  \E c, d \in ConnIds :
    /\ conns[c].failed
    /\ conns[c].failedOn = 1
    /\ conns[d].got = <<1, 2>>

\* C8: no connection is closed more than once.
C8_ClosedAtMostOnce ==
  \A c \in ConnIds : conns[c].closed <= 1

\* C9: when a broadcast round has visited every connection, the registry
\* holds exactly the connections registered at its start on which the write
\* did not fail, and each of them received the result; up to there the
\* connections visited are in one of the two cases.
C9_FailureIsolated ==
  \A b \in BcIds :
    bc[b].pc = "round" =>
      LET visited == bc[b].start \ bc[b].rem
          failing == {c \in bc[b].start : conns[c].failed}
      IN  /\ connections = bc[b].start \ failing
          /\ failing \subseteq visited
          /\ \A c \in visited \ failing :
               /\ conns[c].got # <<>>
               /\ conns[c].got[Len(conns[c].got)] = bc[b].res.id
          /\ \A c \in bc[b].rem :
               \A i \in 1..Len(conns[c].got) : conns[c].got[i] # bc[b].res.id

\* C9 happens: of two registered connections the first visited failed, the
\* round is over, the registry holds the other and it received the result
C9_Witness ==
  \E b \in BcIds, c \in ConnIds :
    /\ bc[b].pc = "round"
    /\ bc[b].rem = {}
    /\ Cardinality(bc[b].start) = 2
    /\ connections = {c}
    /\ conns[c].got # <<>>
    /\ conns[c].got[Len(conns[c].got)] = bc[b].res.id
    /\ \E d \in bc[b].start : conns[d].failed /\ conns[d].failedOn = bc[b].res.id

\* C10: isWakeWord of a result is true exactly when one of the three phrases
\* occurs in the text of its window, letter case ignored; "Hey Alfred,
\* what's up" is flagged, "hello friend" is not; when the text is cut inside
\* every occurrence, neither part is flagged.
C10_WakePhrase ==
  LET phrases == {PhraseInitiate, PhraseHi, PhraseHey}
      At(t, p, i) ==
        /\ i + Len(p) - 1 <= Len(t)
        /\ \A j \in 1..Len(p) : LowerChar(t[i + j - 1]) = p[j]
      Occurs(t) == \E p \in phrases, i \in 1..Len(t) : At(t, p, i)
      text == wk.text
  IN  wk.pc = "done" =>
        /\ wk.whole.isWakeWord = Occurs(text)
        /\ wk.first.isWakeWord = Occurs(wk.first.text)
        /\ wk.second.isWakeWord = Occurs(wk.second.text)
        /\ wk.first.isWakeWord = Occurs(SubSeq(text, 1, wk.cut))
        /\ wk.second.isWakeWord = Occurs(SubSeq(text, wk.cut + 1, Len(text)))
        /\ text = Transcribe(<<TextHeyAlfredWhatsUp>>) => wk.whole.isWakeWord
        /\ text = Transcribe(<<TextHelloFriend>>) => ~wk.whole.isWakeWord
        /\ (\A p \in phrases, i \in 1..Len(text) :
              At(text, p, i) => i <= wk.cut /\ wk.cut < i + Len(p) - 1)
             => ~wk.first.isWakeWord /\ ~wk.second.isWakeWord

\* C10 happens: "Hey Alfred, what's up" is flagged as a whole and, cut after
\* "Hey", flags neither part
C10_Witness ==
  /\ wk.pc = "done"
  /\ wk.text = Transcribe(<<TextHeyAlfredWhatsUp>>)
  /\ wk.cut = 3
  /\ wk.whole.isWakeWord
  /\ ~wk.first.isWakeWord
  /\ ~wk.second.isWakeWord

\* C11: a worker whose engine call failed has put nothing on the results
\* channel and no broadcast carries a result of its window; the step in
\* which it fails releases s.mu and sends nothing; it stays failed (no
\* retry); and with the lock free and the model loaded the worker of another
\* window can enter the engine.
C11_EngineFailureIsolated ==
  /\ [](\A w \in WorkerIds :
          workers[w].pc = "failed" =>
            /\ \A i \in 1..Len(emitted) : emitted[i] # w
            /\ \A i \in 1..Len(results) : results[i].id # w
            /\ \A b \in BcIds : bc[b].pc \in {"lock", "round"} => bc[b].res.id # w
            /\ \A v \in WorkerIds :
                 Alive /\ workers[v].pc = "pending" /\ mu = "free"
                   => ENABLED WorkerLock(v))
  /\ [][\A w \in WorkerIds :
          /\ workers[w].pc = "failed" => workers'[w].pc = "failed"
          /\ workers[w].pc = "transcribing" /\ workers'[w].pc = "failed" =>
               mu' = "free" /\ results' = results /\ emitted' = emitted]_vars

\* C11 happens: the worker of the first window failed in the engine and the
\* worker of the second window emitted its result
C11_Witness ==
  /\ Len(workers) = 2
  /\ workers[1].pc = "failed"
  /\ workers[2].pc = "emitted"
  /\ emitted = <<2>>

\* C14: once a Close call has completed, the service is never Running again.
C14_StoppedIsTerminal ==
  closes >= 1 => ~running

\* C16: a worker is inside the engine call only while the model is loaded,
\* and is at its send on the results channel only while the channel is open;
\* no worker panics.
C16_WorkerSafeAtShutdown ==
  /\ \A w \in WorkerIds :
       /\ workers[w].pc = "transcribing" => modelLoaded
       /\ workers[w].pc = "send" => ~resultsClosed /\ modelLoaded
  /\ panicked = "send on closed channel" =>
       \E k \in CallIds : pa[k].st = "select"

\* C16 happens: Close has completed while a worker launched before it was
\* waiting for s.mu, and that worker found the model released and returned
C16_Witness ==
  /\ closes = 1
  /\ resultsClosed
  /\ panicked = "none"
  /\ \E w \in WorkerIds : workers[w].pc = "no model"

\* C17: no ProcessAudio call sends on the ingestion queue after Close has
\* closed it.
C17_NoSendOnClosedQueue ==
  ~(/\ panicked = "send on closed channel"
    /\ audioClosed
    /\ \E k \in CallIds : pa[k].st = "select")

\* C13: the first frame written to a connection is never a transcription
\* result.
C13_ConfigIsFirstFrame ==
  \A c \in ConnIds : conns[c].first # "result"

\* C12: a chunk is appended to the ingestion queue by a connection handler
\* only for a frame that is a JSON array of numbers; for any other frame
\* nothing is enqueued.
C12_MalformedFrameSkipped ==
  [][Len(audioQueue') > Len(audioQueue) =>
       \A c \in ConnIds :
         conns[c].call = audioQueue'[Len(audioQueue')].id =>
           /\ conns[c].frame.t = "array"
           /\ conns[c].frame.nulls = 0
           /\ conns[c].frame.others = 0]_vars

\* C15: in the step in which the first Close returns on a service that was
\* initialized before (so Running when that Close began), every context is
\* cancelled, the service is not Running, both channels are closed, the
\* model is released, every connection accepted so far has been closed and
\* the registry is empty.
C15_CloseReleasesEverything ==
  [][closes = 0 /\ closes' = 1 /\ Len(acc) >= 1 =>
       /\ cancelled' = Gens
       /\ ~running'
       /\ audioClosed'
       /\ resultsClosed'
       /\ ~modelLoaded'
       /\ connections' = {}
       /\ \A c \in ConnIds : conns'[c].closed >= 1]_vars

\* C18: a request whose audio was accepted into the ingestion queue, and
\* which waits for a result, eventually receives one and responds.
C18_AcceptedRequestAnswered ==
  \A q \in 1..HttpRequests :
    (q \in ReqIds /\ reqs[q].pc = "wait") ~> (q \in ReqIds /\ reqs[q].pc = "done")

\* C19: a request that is not a POST is answered 405; a POST that finds no
\* global service 503; a POST whose body is not JSON, or whose audioData is
\* not an array of numbers (or null), 400; the step that rejects a request
\* changes neither the ingestion queue nor the results channel and starts no
\* ProcessAudio call, and the request is over.
C19_RejectedRequests ==
  /\ [][Len(reqs') = Len(reqs) + 1 =>
          LET r == reqs'[Len(reqs')]
              malformed ==
                \/ r.body.t \notin {"object", "null"}
                \/ /\ r.body.t = "object"
                   /\ \/ r.body.audioData.t \notin {"none", "array", "null"}
                      \/ r.body.audioData.others > 0
          IN  /\ r.method # "POST" => r.status = 405
              /\ r.method = "POST" /\ whisperService = "nil" => r.status = 503
              /\ r.method = "POST" /\ whisperService # "nil" /\ malformed =>
                   r.status = 400
              /\ r.status \in {405, 503, 400} =>
                   /\ r.pc = "done"
                   /\ audioQueue' = audioQueue
                   /\ results' = results
                   /\ pa' = pa]_vars
  /\ [](\A q \in ReqIds :
          reqs[q].status \in {405, 503, 400} =>
            reqs[q].pc = "done" /\ reqs[q].res = ZeroResult /\ reqs[q].call = 0)

\* C19 happens: with the service running and a result waiting on the results
\* channel, a POST with a body that is not JSON was answered 400 and the
\* result is still there
C19_Witness ==
  /\ whisperService = "service"
  /\ Len(results) = 1
  /\ \E q \in ReqIds :
       /\ reqs[q].method = "POST"
       /\ reqs[q].body = BodyInvalid
       /\ reqs[q].status = 400

\* C20: an InitWhisperService call that finds the global unset constructs a
\* service; when the model path names no loadable model file it returns an
\* error, the global stays unset and the call starts nothing; as long as no
\* call was made with a loadable model, the global is unset, nothing is
\* Running and no loop exists.
C20_ModelLoadFailure ==
  /\ [][Len(inits') = Len(inits) + 1 =>
          LET i == inits'[Len(inits')]
          IN  /\ whisperService = "nil" => i.built
              /\ whisperService = "nil" /\ i.path # "model" =>
                   /\ i.err # "none"
                   /\ whisperService' = "nil"
                   /\ running' = running /\ acc' = acc /\ bc' = bc]_vars
  /\ []((\A i \in 1..Len(inits) : inits[i].path # "model")
          => whisperService = "nil" /\ ~running /\ acc = <<>> /\ bc = <<>>)

\* C20 happens: a first InitWhisperService failed on a missing model, the
\* second constructed again, succeeded and set the global
C20_Witness ==
  /\ Len(inits) = 2
  /\ inits[1].path = "missing" /\ inits[1].err # "none"
  /\ inits[2].built /\ inits[2].err = "none"
  /\ whisperService = "service"
  /\ running
  /\ Len(acc) = 1

\* C21: a flushed window is in the emitted history once when its worker has
\* sent its result and not at all otherwise; a worker whose engine call
\* succeeded leaves that state only by sending its one result; every result
\* on the results channel, held by a worker or taken by the broadcaster is
\* final and belongs to one window.
C21_OneFinalResultPerWindow ==
  /\ [](/\ \A w \in WorkerIds :
             Cardinality({i \in 1..Len(emitted) : emitted[i] = w})
               = IF workers[w].pc = "emitted" THEN 1 ELSE 0
        /\ \A i \in 1..Len(results) :
             /\ results[i].isFinal
             /\ results[i].id \in WorkerIds
             /\ workers[results[i].id].pc = "emitted"
             /\ \A j \in 1..Len(results) : results[j].id = results[i].id => j = i
        /\ \A w \in WorkerIds :
             workers[w].pc = "send" =>
               workers[w].res.isFinal /\ workers[w].res.id = w
        /\ \A b \in BcIds :
             bc[b].pc \in {"lock", "round"} /\ bc[b].res # ZeroResult
               => bc[b].res.isFinal)
  /\ [][\A w \in WorkerIds :
          workers[w].pc = "send" /\ workers'[w].pc # "send" =>
            /\ workers'[w].pc = "emitted"
            /\ results' = Append(results, workers[w].res)
            /\ emitted' = Append(emitted, w)]_vars

\* C21 happens: one call brought 48,000 samples, one window was flushed and
\* its one result is on the results channel
C21_Witness ==
  /\ Len(pa) = 1
  /\ pa[1].len = 48000
  /\ Len(workers) = 1
  /\ workers[1].pc = "emitted"
  /\ emitted = <<1>>
  /\ Len(results) = 1
  /\ results[1].isFinal

\* C22: no connection received a result twice; a connection on which a
\* write failed did not receive that result, then or later, and no round
\* has it left to visit.
C22_AtMostOnce ==
  \A c \in ConnIds :
    /\ \A i, j \in 1..Len(conns[c].got) :
         conns[c].got[i] = conns[c].got[j] => i = j
    /\ conns[c].failed =>
         /\ \A i \in 1..Len(conns[c].got) : conns[c].got[i] # conns[c].failedOn
         /\ \A b \in BcIds : c \notin bc[b].rem
    /\ \A b \in BcIds :
         bc[b].pc = "round" /\ c \in bc[b].start \ bc[b].rem =>
           Cardinality({i \in 1..Len(conns[c].got) :
                          conns[c].got[i] = bc[b].res.id}) <= 1

\* C22 happens: two results were broadcast; one connection received each of
\* them once, the other failed on the first and received nothing
C22_Witness ==
  \E c, d \in ConnIds :
    /\ conns[c].got = <<1, 2>>
    /\ conns[d].failed
    /\ conns[d].failedOn = 1
    /\ conns[d].got = <<>>
    /\ \A b \in BcIds : bc[b].pc = "returned"

\* C23: whenever an entry leaves the results channel, it is the broadcaster
\* that received it and that starts a broadcast round with it.
C23_BroadcasterSoleConsumer ==
  [][Len(results') < Len(results) =>
       \E b \in BcIds :
         /\ bc[b].pc = "wait"
         /\ bc'[b].pc = "lock"
         /\ bc'[b].res = Head(results)]_vars

\* C24: a broadcaster whose context is cancelled receives nothing more from
\* the results channel, neither a queued result nor the zero value of the
\* closed channel, and starts no further broadcast round: from its select it
\* only returns.
C24_NoDrainAfterCancel ==
  [][\A b \in BcIds :
       bc[b].pc = "wait" /\ bc[b].ctx \in cancelled =>
         /\ bc'[b].pc \in {"wait", "done"}
         /\ Len(results') >= Len(results)]_vars

C26_OneAccumulator ==
  Cardinality({g \in Gens : acc[g].pc = "wait"}) <= 1

\* C27: the window a worker was started with never changes afterwards; at a
\* flush the worker gets the whole open window and the accumulator starts
\* again from an empty one, so the open window shares no chunk with a window
\* handed off, and no two windows handed off share a chunk.
C27_HandoffByValue ==
  /\ [](/\ \A g \in Gens, w \in WorkerIds :
             \A i \in 1..Len(acc[g].buf), j \in 1..Len(workers[w].window) :
               acc[g].buf[i].id # workers[w].window[j].id
        /\ \A v, w \in WorkerIds :
             v # w =>
               \A i \in 1..Len(workers[v].window), j \in 1..Len(workers[w].window) :
                 workers[v].window[i].id # workers[w].window[j].id)
  /\ [][/\ \A w \in WorkerIds : workers'[w].window = workers[w].window
        /\ Len(workers') > Len(workers) =>
             \E g \in Gens :
               /\ acc[g].pc = "wait"
               /\ acc'[g].buf = <<>>
               /\ workers'[Len(workers')].window
                    \in {acc[g].buf} \cup
                        {Append(acc[g].buf, audioQueue[i]) : i \in 1..Len(audioQueue) \cap {1}}]_vars

\* C27 happens: a window is with a worker that has not finished while the
\* accumulator has appended a later chunk to its open window
C27_Witness ==
  \E g \in Gens, w \in WorkerIds :
    /\ workers[w].pc \notin {"emitted", "failed", "no model"}
    /\ BufLen(workers[w].window) >= bufferSize
    /\ acc[g].buf # <<>>
    /\ acc[g].buf[1].id > workers[w].window[Len(workers[w].window)].id

\* C29: when the timer expires on a window of fewer than SampleRate/2
\* samples, no worker is started, the window and the queue stay as they are;
\* the chunk received next is appended behind the samples kept, and the
\* whole is what is flushed or kept then.
C29_ShortWindowKept ==
  [][\A g \in Gens :
       /\ (/\ acc[g].pc = "wait"
           /\ ~acc[g].timedOut
           /\ acc'[g].timedOut
           /\ BufLen(acc[g].buf) < minBufferSize)
          => /\ acc'[g].buf = acc[g].buf
             /\ workers' = workers
             /\ audioQueue' = audioQueue
       /\ (/\ acc[g].timedOut
           /\ ~acc'[g].timedOut
           /\ BufLen(acc[g].buf) < minBufferSize)
          => /\ audioQueue # <<>>
             /\ LET window == Append(acc[g].buf, Head(audioQueue))
                IN  IF BufferFull(window)
                    THEN /\ Len(workers') = Len(workers) + 1
                         /\ workers'[Len(workers')].window = window
                         /\ acc'[g].buf = <<>>
                    ELSE /\ workers' = workers
                         /\ acc'[g].buf = window]_vars

\* C29 happens: the timer expired on a window of 4,000 samples, which is
\* still open, and no window was flushed
C29_Witness ==
  \E g \in Gens :
    /\ acc[g].pc = "wait"
    /\ acc[g].timedOut
    /\ Len(acc[g].buf) = 1
    /\ BufLen(acc[g].buf) = 4000
    /\ workers = <<>>

\* C28: whatever the workers do, the accumulator in its select can take the
\* chunk at the head of the ingestion queue, or let its timer expire on the
\* empty queue; the step that starts a worker leaves the accumulator in its
\* select and the worker not yet started on its window.
C28_AccumulatorNeverWaits ==
  /\ [](\A g \in Gens :
          Alive /\ acc[g].pc = "wait" =>
            /\ audioQueue # <<>> => ENABLED AccRecv(g)
            /\ audioQueue = <<>> /\ ~audioClosed /\ g \notin cancelled
                 => ENABLED AccTimeout(g))
  /\ [][Len(workers') > Len(workers) =>
          /\ workers'[Len(workers')].pc = "pending"
          /\ \A g \in Gens : acc[g].pc = "wait" => acc'[g].pc = "wait"]_vars

\* C28 happens: a worker is blocked sending to the full results channel,
\* holding the engine, and the accumulator has since received a chunk and
\* started the worker of a later window
C28_Witness ==
  \E v, w \in WorkerIds :
    /\ v < w
    /\ workers[v].pc = "send"
    /\ Len(results) = ResultsCap
    /\ ~resultsClosed
    /\ workers[w].pc = "pending"
    /\ workers[w].window[1].id > workers[v].window[1].id
    /\ \E g \in Gens : acc[g].pc = "wait"

\* C30: the connection registry changes only in steps taken under the
\* exclusive lock, that is while no goroutine holds the read lock; holders of
\* the read lock only read it.
C30_RegistryWriteLocked ==
  [][connections' # connections => connReaders = {}]_vars

\* C31: removing a connection that is not in the registry leaves the
\* registry as it is, and removing a connection twice gives what removing it
\* once gives; the teardown of a handler whose connection the broadcaster
\* already pruned does not change the registry.
C31_RemoveIdempotent ==
  /\ [](\A c \in ConnIds :
          /\ c \notin connections => RemoveWebSocket(connections, c) = connections
          /\ RemoveWebSocket(RemoveWebSocket(connections, c), c)
               = RemoveWebSocket(connections, c))
  /\ [][\A c \in ConnIds :
          conns[c].pc # "close" /\ conns'[c].pc = "close" /\ c \notin connections
            => connections' = connections]_vars

\* C31 happens: the handler of a connection that the broadcaster had pruned
\* has run its teardown while another connection is registered
C31_Witness ==
  \E c, d \in ConnIds :
    /\ conns[c].failed
    /\ conns[c].pc = "done"
    /\ connections = {d}

\* C32: a connection whose handler has returned is not in the registry, no
\* broadcast round has it left to visit, and no result is written to it any
\* more.
C32_TerminatedDeregistered ==
  /\ [](\A c \in ConnIds :
          conns[c].pc \in {"close", "done"} =>
            /\ c \notin connections
            /\ \A b \in BcIds : c \notin bc[b].rem)
  /\ [][\A c \in ConnIds :
          conns[c].pc = "done" =>
            /\ conns'[c].pc = "done"
            /\ conns'[c].got = conns[c].got]_vars

\* C32 happens: a connection received the first result, its peer closed it
\* and its handler returned; the second result went to the other connection
\* only
C32_Witness ==
  \E c, d \in ConnIds :
    /\ conns[c].pc = "done"
    /\ ~conns[c].failed
    /\ conns[c].got = <<1>>
    /\ conns[d].got = <<1, 2>>

\* C33: a result whose text, in lower case, contains the wake phrase of the
\* configuration is flagged isWakeWord.
C33_ConfiguredWakeWord ==
  wk.pc = "done" /\ Contains(ToLower(wk.text), WakeWord) => wk.whole.isWakeWord

\* C34: on a running service that was not closed, the windows handed to the
\* workers, in the order of the flushes, followed by the open window hold
\* exactly the chunks dequeued so far, each once, in the order they were
\* accepted and with the samples they came with.
C34_SamplesConserved ==
  LET g == Len(acc)
      Window(w) == IF w <= Len(workers) THEN workers[w].window ELSE acc[g].buf
      Places == {p \in (1..(Len(workers) + 1)) \X (1..Len(pa)) :
                   p[2] <= Len(Window(p[1]))}
      Chunk(p) == Window(p[1])[p[2]]
      dequeued == {k \in CallIds :
                     /\ pa[k].st = "ok"
                     /\ \A i \in 1..Len(audioQueue) : audioQueue[i].id # k}
  IN  running /\ cancelled = {} /\ g >= 1 =>
        /\ {Chunk(p).id : p \in Places} = dequeued
        /\ \A w \in 1..(Len(workers) + 1) : Len(Window(w)) <= Len(pa)
        /\ \A p \in Places : Chunk(p).len = pa[Chunk(p).id].len
        /\ \A p, q \in Places :
             (p[1] < q[1] \/ (p[1] = q[1] /\ p[2] < q[2]))
               => Chunk(p).id < Chunk(q).id

\* C34 happens: a window of two chunks was flushed to a worker, by the timer
\* or by the second chunk filling it
C34_Witness ==
  /\ running
  /\ cancelled = {}
  /\ Len(workers) = 1
  /\ Len(workers[1].window) = 2
  /\ workers[1].window[1].id = 1
  /\ workers[1].window[2].id = 2
  /\ acc[1].buf = <<>>

\* C35: an Initialize call on a running service starts no loop and leaves
\* the context and its cancel function as they are; while the service runs
\* there is exactly one accumulator loop and one broadcaster loop that has
\* not returned.
C35_InitializeIdempotent ==
  /\ [][running /\ initCalls' = initCalls + 1 =>
          /\ running'
          /\ acc' = acc
          /\ bc' = bc
          /\ cancelled' = cancelled]_vars
  /\ [](running =>
          /\ Cardinality({g \in Gens : acc[g].pc # "done"}) = 1
          /\ Cardinality({b \in BcIds : bc[b].ctx # 0 /\ bc[b].pc # "done"}) = 1)

\* C37: from a state in which the service is stopped (a Close call has
\* returned, no call is in progress, s.running is false), as long as
\* Initialize is not called again, no Close call ends in the panic of closing
\* a channel a second time.
C37_CloseStoppedNoOp ==
  \A n \in 0..LifeInits :
    [](closes >= 1 /\ closePc = "idle" /\ ~running /\ initCalls = n
         => [](initCalls = n => panicked # "close of closed channel"))

\* C38: once a Close call has returned and the service is not running, the
\* registry is empty.
C38_StoppedHoldsNoConnection ==
  closes >= 1 /\ closePc = "idle" /\ ~running => connections = {}

\* C36: unless the process dies of a panic, a Close call that has taken the
\* service lock returns, a worker that holds the service lock releases it,
\* and the read lock on the registry is released: the locks Close needs
\* become free again and again, and Close, once in, comes out.
C36_CloseCompletes ==
  /\ (closePc # "idle") ~> (closePc = "idle" \/ ~Alive)
  /\ (mu = "worker") ~> (mu # "worker" \/ ~Alive)
  /\ (connReaders # {}) ~> (connReaders = {} \/ ~Alive)

====
